---- MODULE Spec2Model ----
(***************************************************************************)
(* Reservation lifecycle and consistency core of the hotel booking system. *)
(*                                                                         *)
(* Three parts, each with its own specification over the same variables:   *)
(*   SpecAgg      the Reservation aggregate (TypeScript                    *)
(*                ReservationAggregate and Go entity.Reservation);         *)
(*   SpecRepo     the Go ReservationService use cases on top of            *)
(*                PostgresReservationRepository and OutboxPublisher.Publish*)
(*   SpecOutbox   OutboxPublisher.ProcessOutboxEvents and EventBus.Publish *)
(*                (SpecDispatch: one dispatcher; SpecDispatchFair: one     *)
(*                dispatcher under fair scheduling).                       *)
(*   SpecRate     RateCalculatorService;                                   *)
(*   SpecUseCase  CreateReservationUseCase.execute;                        *)
(*   SpecMoney, SpecDates   the Money and DateRange value objects.         *)
(***************************************************************************)
EXTENDS Integers, Sequences, FiniteSets, TLC

VARIABLES
    \* ---- the aggregate (one Reservation instance in memory)
    impl,                \* "ts": ReservationAggregate; "go": entity.Reservation of the
                         \* enhanced implementation; "mvp": entity.Reservation of
                         \* the technical foundation
    status,              \* "None" before construction, else the ReservationStatus
    confirmationNumber,  \* 0 = undefined
    totalAmount,
    events,              \* pending (uncommitted) domain events, oldest first
    result,              \* outcome of the last call: Ok or the error raised
    lastOp,              \* name of the last operation called
    calls,               \* number of operations called so far
    arg,                 \* what the caller of the last operation supplied: the room
                         \* bookings of create, the payment reference of confirm
    roomBookings,        \* the stay the aggregate was created for (dateRange and
                         \* roomBookings; no operation changes them afterwards)
    eventStore,          \* the events of the aggregate saved to the event store
    \* ---- repository, service use cases
    stored,              \* the row of reservation.reservations, or NoRow
    ent,                 \* ent[c]: the entity a use case holds in memory
    pc,                  \* pc[c]: position of use case c
    res,                 \* res[c]: outcome of the use case's repository write
    loadedAt,            \* loadedAt[c]: number of committed writes seen at load
    writes,              \* number of committed writes of the row
    outbox,              \* shared.outbox_events, in creation order
    \* ---- dispatcher
    registry,            \* OutboxPublisher.typeRegistry (set of event types)
    batch,               \* batch[w]: rows fetched by worker w, still to process
    outcome,             \* outcome[w]: handler results of w's last delivery
    flaky,               \* flaky[h]: handler h may still fail
    handled,             \* handled[i]: handlers that have handled row i successfully
    billed,              \* billed[i]: payments or refunds carried out for the event of row i
    deliveries,          \* deliveries[i]: how often EventBus.Publish was called for
                         \* row i and how often each handler was invoked for it
    \* ---- booking policy service
    failing,             \* the policies the booking under validation violates
    evaluated,           \* the policies validateBooking has evaluated so far, in order
    verdict,             \* what validateBooking returned, or NoVerdict
    hoursUntilCheckIn,   \* time from the validation to the check-in of the booking
    \* ---- rate calculator
    baseRates,           \* RateCalculatorService.baseRates: room type -> Money, or NoRate
    cache,               \* the Cache the service was given: key -> stored string, or NoEntry
    calcLog,             \* the CalculateRate calls made so far, with what they returned
    multi,               \* the CalculateRatesForMultipleRooms call: its goroutines,
                         \* its result channel and what it has collected
    \* ---- CreateReservationUseCase
    request,             \* number of the execute call in progress or last finished
    ucPc,                \* position of that execute call
    answers,             \* answers[r]: what the policy service and the availability
                         \* port answered to call r
    ucError,             \* ucError[r]: the exception call r threw, or NoError
    portCalls,           \* portCalls[r]: how often call r invoked holdRooms, save
                         \* and publishEvents
    published,           \* published[r]: the event lists call r gave to the event bus
    \* ---- value objects
    held,                \* held[i]: a Money a caller has obtained, or NoMoney
    moneyCall,           \* the last Money operation: its operands and what it returned
    moneyOps,            \* number of Money operations called so far
    rangeCall,           \* the last DateRange construction: its arguments, the time
                         \* of the call and what it returned
    \* ---- EventBus.PublishWithRetry
    retry                \* the PublishWithRetry call: its arguments, its loop
                         \* counter, the handlers that failed in each Publish it
                         \* made, and what it returned

aggVars  == <<impl, status, confirmationNumber, totalAmount, events, result, lastOp, calls, arg,
              roomBookings, eventStore>>
repoVars == <<stored, ent, pc, res, loadedAt, writes>>
dispVars == <<registry, batch, outcome, flaky, handled, billed, deliveries>>
policyVars == <<failing, evaluated, verdict, hoursUntilCheckIn>>
rateVars == <<baseRates, cache, calcLog, multi>>
ucVars   == <<request, ucPc, answers, ucError, portCalls, published>>
valVars  == <<held, moneyCall, moneyOps>>
dateVars == <<rangeCall>>
busVars  == <<retry>>
extVars  == <<rateVars, ucVars, valVars, dateVars, busVars>>
vars     == <<aggVars, repoVars, outbox, dispVars, policyVars, extVars>>

-----------------------------------------------------------------------------
(* Bounds of the model *)

MaxCalls == 4
\* operations called on one aggregate instance

MaxCalcs == 2
\* CalculateRate calls recorded

MaxRequests == 2
\* execute calls of the use case

MaxMoneyOps == 3
\* Money operations called one after the other

MaxRetriesArg == 2
\* largest maxRetries a caller passes to PublishWithRetry

-----------------------------------------------------------------------------
(* Results and errors *)

Ok == [kind |-> "ok", msg |-> ""]

Err(kind, msg) == [kind |-> kind, msg |-> msg]

NoResult == [kind |-> "none", msg |-> ""]

-----------------------------------------------------------------------------
(* The Reservation aggregate *)

NoRef == "absent"

PaymentRefs == {NoRef, "pay_1"}

ConfirmationNumbers == {1, 2}
\* values ConfirmationNumber.generate() can return

Amounts == {0, 300}
\* totals the rate calculator / the caller can supply

\* What the constructor of an event is given besides the aggregate id:
\* ReservationCreatedEvent, ReservationConfirmedEvent, ReservationCancelledEvent
\* and ReservationTotalCalculatedEvent of ReservationAggregate;
\* NewReservationCreated, NewReservationConfirmed, NewReservationCancelled of
\* the enhanced entity; NewBookingCreated, NewBookingConfirmed and
\* NewBookingCancelled of the technical foundation.
Payload(im, type) ==
    CASE im = "ts" /\ type = "ReservationCreated" -> {"guestId", "dateRange", "roomBookings"}
      [] im = "ts" /\ type = "ReservationConfirmed" -> {"confirmationNumber", "paymentReference"}
      [] im = "ts" /\ type = "ReservationCancelled" -> {"reason", "dateRange", "roomBookings"}
      [] im = "ts" /\ type = "ReservationTotalCalculated" -> {"totalAmount"}
      [] im = "go" /\ type = "ReservationCreated" -> {"guestId", "dateRange", "roomBookings"}
      [] im = "go" /\ type = "ReservationConfirmed" -> {"confirmedAt"}
      [] im = "go" /\ type = "ReservationCancelled" -> {"reason", "cancelledAt"}
      [] im = "mvp" /\ type = "BookingCreated" -> {"guestId"}
      [] OTHER -> {}

\* data: the value of the event's payload that the aggregate's state depends
\* on (the stay of a created event, the confirmation number, the total).
EventWith(im, type, data) == [type |-> type, carries |-> Payload(im, type), data |-> data]

Event(im, type) == EventWith(im, type, "-")

\* ReservationAggregate.confirm: the two guards, in the order of the code.
TsConfirmError_NoPendingGuard(s, ref) ==
    IF ref = NoRef
    THEN Err("DomainException", "Payment reference required for confirmation")
    ELSE Ok

TsConfirmError(s, ref) ==
    IF s # "Pending"
    THEN Err("DomainException", "Only pending reservations can be confirmed")
    ELSE IF ref = NoRef
    THEN Err("DomainException", "Payment reference required for confirmation")
    ELSE Ok

\* ReservationAggregate.cancel: the two guards.
TsCancelError_NoCompletedGuard(s) ==
    IF s = "Cancelled"
    THEN Err("DomainException", "Reservation is already cancelled")
    ELSE Ok

\* A guard that lets a cancelled reservation be cancelled again
TsCancelError_Repeatable(s) ==
    IF s = "Completed"
    THEN Err("DomainException", "Cannot cancel completed reservations")
    ELSE Ok

TsCancelError(s) ==
    IF s = "Cancelled"
    THEN Err("DomainException", "Reservation is already cancelled")
    ELSE IF s = "Completed"
    THEN Err("DomainException", "Cannot cancel completed reservations")
    ELSE Ok

\* entity.Reservation.Confirm: status guard, then the check-in date guard.
GoConfirmError(s, pastCheckIn) ==
    IF s # "Pending"
    THEN Err("BusinessRuleViolation", "cannot confirm reservation in status")
    ELSE IF pastCheckIn
    THEN Err("BusinessRuleViolation", "cannot confirm past reservation")
    ELSE Ok

\* entity.Reservation.Cancel: the two guards.
GoCancelError(s) ==
    IF s = "Cancelled"
    THEN Err("BusinessRuleViolation", "reservation already cancelled")
    ELSE IF s = "Completed"
    THEN Err("BusinessRuleViolation", "cannot cancel completed reservation")
    ELSE Ok

\* entity.Reservation.Confirm (technical foundation)
MvpConfirmError(s) ==
    IF s # "Pending"
    THEN Err("ValidationError", "only pending reservations can be confirmed")
    ELSE Ok

\* entity.Reservation.Cancel (technical foundation): the one guard.
MvpCancelError(s) ==
    IF s = "Cancelled"
    THEN Err("ValidationError", "reservation is already cancelled")
    ELSE Ok

NoArg == "-"

CalledWith(op, a, r) ==
    /\ calls < MaxCalls
    /\ calls' = calls + 1
    /\ lastOp' = op
    /\ arg' = a
    /\ result' = r

Called(op, r) == CalledWith(op, NoArg, r)

\* No aggregate constructed yet.
NoAggregate ==
    /\ status = "None"
    /\ confirmationNumber = 0
    /\ totalAmount = 0
    /\ events = <<>>
    /\ result = NoResult
    /\ lastOp = "none"
    /\ calls = 0
    /\ arg = NoArg
    /\ roomBookings = NoArg
    /\ eventStore = <<>>

\* ReservationAggregate.create: builds the aggregate from whatever list it is
\* given and adds ReservationCreatedEvent.
TsCreate(rb) ==
    /\ impl = "ts"
    /\ status = "None"
    /\ status' = "Pending"
    /\ totalAmount' = 0
    /\ confirmationNumber' = 0
    /\ roomBookings' = rb
    /\ events' = <<EventWith("ts", "ReservationCreated", rb)>>
    /\ CalledWith("create", rb, Ok)
    /\ UNCHANGED <<impl, eventStore>>

\* entity.NewReservation
GoNewReservation(price) ==
    /\ impl = "go"
    /\ status = "None"
    /\ status' = "Pending"
    /\ totalAmount' = price
    /\ confirmationNumber' = 0
    /\ events' = <<Event("go", "ReservationCreated")>>
    /\ roomBookings' = "valid"
    /\ CalledWith("create", "valid", Ok)
    /\ UNCHANGED <<impl, eventStore>>

\* An aggregate read back from storage carries whatever status was stored
\* and no pending events.
Reconstruct(s, cn, amount) ==
    /\ status = "None"
    /\ status' = s
    /\ confirmationNumber' = IF impl = "ts" /\ s # "Pending" THEN cn ELSE 0
    /\ totalAmount' = amount
    /\ events' = <<>>
    /\ roomBookings' = "valid"
    /\ Called("load", Ok)
    /\ UNCHANGED <<impl, eventStore>>

\* ReservationAggregate.confirm
TsConfirm(ref) ==
    /\ impl = "ts"
    /\ status # "None"
    /\ LET e == TsConfirmError(status, ref) IN
        /\ CalledWith("confirm", ref, e)
        /\ IF e = Ok
           THEN /\ status' = "Confirmed"
                /\ \E n \in ConfirmationNumbers : confirmationNumber' = n
                /\ events' = Append(events, EventWith("ts", "ReservationConfirmed",
                                                     confirmationNumber'))
           ELSE UNCHANGED <<status, confirmationNumber, events>>
    /\ UNCHANGED <<impl, roomBookings, eventStore, totalAmount>>

\* cancel that also forgets the confirmation number
TsCancel_ClearsNumber ==
    /\ impl = "ts"
    /\ status # "None"
    /\ LET e == TsCancelError(status) IN
        /\ Called("cancel", e)
        /\ IF e = Ok
           THEN /\ status' = "Cancelled"
                /\ confirmationNumber' = 0
                /\ events' = Append(events, Event("ts", "ReservationCancelled"))
           ELSE UNCHANGED <<status, events, confirmationNumber>>
    /\ UNCHANGED <<impl, roomBookings, eventStore, totalAmount>>

\* ReservationAggregate.cancel
TsCancel ==
    /\ impl = "ts"
    /\ status # "None"
    /\ LET e == TsCancelError(status) IN
        /\ Called("cancel", e)
        /\ IF e = Ok
           THEN /\ status' = "Cancelled"
                /\ events' = Append(events, Event("ts", "ReservationCancelled"))
           ELSE UNCHANGED <<status, events>>
    /\ UNCHANGED <<impl, roomBookings, eventStore, totalAmount, confirmationNumber>>

\* calculateTotal that sets the total without recording the event
TsCalculateTotal_NoEvent(amount) ==
    /\ impl = "ts"
    /\ status # "None"
    /\ totalAmount' = amount
    /\ Called("calculateTotal", Ok)
    /\ UNCHANGED <<impl, roomBookings, eventStore, status, confirmationNumber, events>>

\* ReservationAggregate.calculateTotal
TsCalculateTotal(amount) ==
    /\ impl = "ts"
    /\ status # "None"
    /\ totalAmount' = amount
    /\ events' = Append(events, EventWith("ts", "ReservationTotalCalculated", amount))
    /\ Called("calculateTotal", Ok)
    /\ UNCHANGED <<impl, roomBookings, eventStore, status, confirmationNumber>>

\* entity.Reservation.Confirm: it has no parameter, whatever payment
\* reference (ref) the caller holds does not reach it.
GoConfirm(ref, pastCheckIn) ==
    /\ impl = "go"
    /\ status # "None"
    /\ LET e == GoConfirmError(status, pastCheckIn) IN
        /\ CalledWith("confirm", ref, e)
        /\ IF e = Ok
           THEN /\ status' = "Confirmed"
                /\ events' = Append(events, Event("go", "ReservationConfirmed"))
           ELSE UNCHANGED <<status, events>>
    /\ UNCHANGED <<impl, roomBookings, eventStore, totalAmount, confirmationNumber>>

\* entity.Reservation.Cancel
GoCancel ==
    /\ impl = "go"
    /\ status # "None"
    /\ LET e == GoCancelError(status) IN
        /\ Called("cancel", e)
        /\ IF e = Ok
           THEN /\ status' = "Cancelled"
                /\ events' = Append(events, Event("go", "ReservationCancelled"))
           ELSE UNCHANGED <<status, events>>
    /\ UNCHANGED <<impl, roomBookings, eventStore, totalAmount, confirmationNumber>>

\* The two guards of UpdateGuestInfo.
GoUpdateGuestInfoError(s, newGuestID) ==
    IF s # "Pending"
    THEN Err("BusinessRuleViolation", "can only update guest info for pending reservations")
    ELSE IF newGuestID = ""
    THEN Err("ValidationError", "guest ID cannot be empty")
    ELSE Ok

\* UpdateGuestInfo that checks a confirmed guest out
GoUpdateGuestInfo_Completes(newGuestID) ==
    /\ impl = "go"
    /\ status # "None"
    /\ CalledWith("updateGuestInfo", newGuestID, Ok)
    /\ status' = IF status = "Confirmed" THEN "Completed" ELSE status
    /\ events' = Append(events, Event("go", "GuestInfoUpdated"))
    /\ UNCHANGED <<impl, roomBookings, eventStore, totalAmount, confirmationNumber>>

\* entity.Reservation.UpdateGuestInfo: replaces the guest id (which the
\* model does not keep) and adds GuestInfoUpdated.
GoUpdateGuestInfo(newGuestID) ==
    /\ impl = "go"
    /\ status # "None"
    /\ LET e == GoUpdateGuestInfoError(status, newGuestID) IN
        /\ CalledWith("updateGuestInfo", newGuestID, e)
        /\ events' = IF e = Ok THEN Append(events, Event("go", "GuestInfoUpdated")) ELSE events
    /\ UNCHANGED <<impl, roomBookings, eventStore, status, totalAmount, confirmationNumber>>

\* entity.Reservation.ApplyDiscount: the status guard, then discount.Apply,
\* which returns the discounted price or an error; on success the price is
\* replaced and DiscountApplied is added.
GoApplyDiscount(discountedPrice, applyFails) ==
    /\ impl = "go"
    /\ status # "None"
    /\ LET e == IF status # "Pending"
                THEN Err("BusinessRuleViolation",
                         "can only apply discount to pending reservations")
                ELSE IF applyFails THEN Err("error", "failed to apply discount")
                ELSE Ok
       IN
        /\ Called("applyDiscount", e)
        /\ IF e = Ok
           THEN /\ totalAmount' = discountedPrice
                /\ events' = Append(events, Event("go", "DiscountApplied"))
           ELSE UNCHANGED <<totalAmount, events>>
    /\ UNCHANGED <<impl, roomBookings, eventStore, status, confirmationNumber>>

\* Entity.GetEvents: returns the pending events and clears the list
GoGetEvents ==
    /\ impl \in {"go", "mvp"}
    /\ status # "None"
    /\ events' = <<>>
    /\ Called("getEvents", Ok)
    /\ UNCHANGED <<impl, roomBookings, eventStore, status, totalAmount, confirmationNumber>>

\* entity.NewReservation (technical foundation)
MvpNewReservation(price) ==
    /\ impl = "mvp"
    /\ status = "None"
    /\ status' = "Pending"
    /\ totalAmount' = price
    /\ confirmationNumber' = 0
    /\ events' = <<Event("mvp", "BookingCreated")>>
    /\ roomBookings' = "valid"
    /\ CalledWith("create", "valid", Ok)
    /\ UNCHANGED <<impl, eventStore>>

\* entity.Reservation.Confirm (technical foundation), also without parameter
MvpConfirm(ref) ==
    /\ impl = "mvp"
    /\ status # "None"
    /\ LET e == MvpConfirmError(status) IN
        /\ CalledWith("confirm", ref, e)
        /\ IF e = Ok
           THEN /\ status' = "Confirmed"
                /\ events' = Append(events, Event("mvp", "BookingConfirmed"))
           ELSE UNCHANGED <<status, events>>
    /\ UNCHANGED <<impl, roomBookings, eventStore, totalAmount, confirmationNumber>>

\* entity.Reservation.Cancel (technical foundation)
MvpCancel ==
    /\ impl = "mvp"
    /\ status # "None"
    /\ LET e == MvpCancelError(status) IN
        /\ Called("cancel", e)
        /\ IF e = Ok
           THEN /\ status' = "Cancelled"
                /\ events' = Append(events, Event("mvp", "BookingCancelled"))
           ELSE UNCHANGED <<status, events>>
    /\ UNCHANGED <<impl, roomBookings, eventStore, totalAmount, confirmationNumber>>

\* What a query that answers yes or no returns.
Returned(answer) == [kind |-> "ok", msg |-> IF answer THEN "true" ELSE "false"]

\* ReservationAggregate.isWithinCancellationPeriod: hoursDifference >= 24
TsWithinCancellationPeriod(hours) == hours >= 24

\* Reservation.IsWithinCancellationPeriod (technical foundation):
\* hoursUntilCheckIn > 24
MvpWithinCancellationPeriod(hours) == hours > 24

\* isWithinCancellationPeriod / IsWithinCancellationPeriod, called when
\* check-in is the given number of hours away.
IsWithinCancellationPeriod(hours) ==
    /\ impl \in {"ts", "mvp"}
    /\ status # "None"
    /\ CalledWith("isWithinCancellationPeriod", hours,
                  Returned(IF impl = "ts" THEN TsWithinCancellationPeriod(hours)
                                          ELSE MvpWithinCancellationPeriod(hours)))
    /\ UNCHANGED <<impl, roomBookings, eventStore, status, totalAmount, confirmationNumber,
                    events>>

\* AggregateRoot.markEventsAsCommitted: empties the list of uncommitted events.
markEventsAsCommitted == events' = <<>>

\* DrizzleReservationRepository.save: nothing to do without uncommitted
\* events; otherwise appends them to the event store in order and marks
\* them committed.
TsSave ==
    /\ impl = "ts"
    /\ status # "None"
    /\ events # <<>>
    /\ eventStore' = eventStore \o events
    /\ markEventsAsCommitted
    /\ lastOp' = "save"
    /\ arg' = NoArg
    /\ result' = Ok
    /\ UNCHANGED <<impl, status, confirmationNumber, totalAmount, roomBookings, calls>>

NextAgg ==
    \/ \E b \in {"empty", "valid"} : TsCreate(b)
    \/ \E a \in Amounts : GoNewReservation(a)
    \/ \E s \in {"Pending", "Confirmed", "Cancelled", "Completed"},
          cn \in ConfirmationNumbers, a \in Amounts : Reconstruct(s, cn, a)
    \/ \E ref \in PaymentRefs : TsConfirm(ref)
    \/ TsCancel
    \/ \E a \in Amounts : TsCalculateTotal(a)
    \/ TsSave
    \/ \E h \in {23, 24, 25} : IsWithinCancellationPeriod(h)
    \/ \E ref \in PaymentRefs, p \in BOOLEAN : GoConfirm(ref, p)
    \/ GoCancel
    \/ \E g \in {"", "g2"} : GoUpdateGuestInfo(g)
    \/ \E a \in Amounts, applyFails \in BOOLEAN : GoApplyDiscount(a, applyFails)
    \/ GoGetEvents
    \/ \E a \in Amounts : MvpNewReservation(a)
    \/ \E ref \in PaymentRefs : MvpConfirm(ref)
    \/ MvpCancel

-----------------------------------------------------------------------------
(* Repository and service use cases (Go) *)

NumClients == 2
\* use cases running concurrently against the same reservation row

MaxRows == 3
\* rows the outbox table can hold in the model

DefaultVersion == 1
\* ReservationModel.Version `gorm:"not null;default:1"`

Clients == 1..NumClients

Aggregates == {"r1", "r2"}

NoRow == [status |-> "None", version |-> 0]

\* An entity in memory: its state, its pending events, and the events the
\* use case has taken with GetEvents and still has to publish.
NoEntity == [status |-> "None", quantity |-> 0, version |-> 0, events |-> <<>>, out |-> <<>>]

NoWrite == [kind |-> "none", fresh |-> FALSE]

\* OutboxPublisher.Publish: the row built from the event.
OutboxRow(type, agg) == [type |-> type, agg |-> agg, processed |-> FALSE, retries |-> 0]

\* entity.NewReservation (technical foundation): Pending, one BookingCreated event;
\* the version field is not set.
NewReservation(q) ==
    [status |-> "Pending", quantity |-> q, version |-> 0,
     events |-> <<Event("mvp", "BookingCreated")>>, out |-> <<>>]

\* entityToModel: copies id, guest, room type, dates, price and status;
\* ReservationModel has no column for the quantity of the room booking, and
\* Version is not set, so the model's Version is the zero value.
entityToModel(e) == [Status |-> e.status, Version |-> 0]

\* modelToEntity: passes id, guest, dates, room, price, status and timestamps
\* to ReconstructReservation; the room booking is rebuilt as
\* NewRoomBooking(model.RoomTypeID, 1) and the model's Version is not passed on.
modelToEntity(m) ==
    [status |-> m.status, quantity |-> 1, version |-> 0, events |-> <<>>, out |-> <<>>]

\* db.Create(&model): a zero Version takes the column default.
GormCreate(m) ==
    [status |-> m.Status,
     version |-> IF m.Version = 0 THEN DefaultVersion ELSE m.Version]

\* Update's WHERE clause: id = model.ID AND version = model.Version - 1.
UpdateMatches(row, m) ==
    /\ row # NoRow
    /\ row.version = m.Version - 1

\* Updates(&model): writes the non-zero fields of the model.
GormUpdates(row, m) ==
    [status |-> m.Status,
     version |-> IF m.Version # 0 THEN m.Version ELSE row.version]

InitRepo ==
    /\ stored = NoRow
    /\ ent = [c \in Clients |-> NoEntity]
    /\ pc = [c \in Clients |-> "idle"]
    /\ res = [c \in Clients |-> NoWrite]
    /\ loadedAt = [c \in Clients |-> 0]
    /\ writes = 0

\* A caller builds the entity it is going to store: CreateReservation books
\* one room, other callers of the repository pass the booking they were given
\* (one reservation id in the model).
UcNewReservation(c, q) ==
    /\ pc[c] = "idle"
    /\ stored = NoRow
    /\ \A d \in Clients : pc[d] # "new"
    /\ ent' = [ent EXCEPT ![c] = NewReservation(q)]
    /\ pc' = [pc EXCEPT ![c] = "new"]
    /\ UNCHANGED <<stored, res, loadedAt, writes, outbox>>

\* PostgresReservationRepository.Create
RepoCreate(c) ==
    /\ pc[c] = "new"
    /\ stored' = GormCreate(entityToModel(ent[c]))
    /\ writes' = writes + 1
    /\ pc' = [pc EXCEPT ![c] = "persisted"]
    /\ UNCHANGED <<ent, res, loadedAt, outbox>>

\* ConfirmReservation: PostgresReservationRepository.GetByID
RepoGetByID(c) ==
    /\ pc[c] = "idle"
    /\ IF stored = NoRow
       THEN /\ pc' = [pc EXCEPT ![c] = "done"]
            /\ UNCHANGED <<ent, loadedAt>>
       ELSE /\ ent' = [ent EXCEPT ![c] = modelToEntity(stored)]
            /\ loadedAt' = [loadedAt EXCEPT ![c] = writes]
            /\ pc' = [pc EXCEPT ![c] = "loaded"]
    /\ UNCHANGED <<stored, res, writes, outbox>>

\* ConfirmReservation: reservation.Confirm()
UcConfirm(c) ==
    /\ pc[c] = "loaded"
    /\ IF MvpConfirmError(ent[c].status) = Ok
       THEN /\ ent' = [ent EXCEPT ![c].status = "Confirmed",
                                  ![c].events = Append(@, Event("mvp", "BookingConfirmed"))]
            /\ pc' = [pc EXCEPT ![c] = "mutated"]
       ELSE /\ pc' = [pc EXCEPT ![c] = "done"]
            /\ UNCHANGED ent
    /\ UNCHANGED <<stored, res, loadedAt, writes, outbox>>

\* PostgresReservationRepository.Update
RepoUpdate(c) ==
    /\ pc[c] = "mutated"
    /\ LET m == entityToModel(ent[c]) IN
        IF UpdateMatches(stored, m)
        THEN /\ stored' = GormUpdates(stored, m)
             /\ writes' = writes + 1
             /\ res' = [res EXCEPT ![c] = [kind |-> "ok", fresh |-> loadedAt[c] = writes]]
             /\ pc' = [pc EXCEPT ![c] = "persisted"]
        ELSE /\ res' = [res EXCEPT ![c] =
                          [kind |-> "ConcurrencyError", fresh |-> loadedAt[c] = writes]]
             /\ pc' = [pc EXCEPT ![c] = "done"]
             /\ UNCHANGED <<stored, writes>>
    /\ UNCHANGED <<ent, loadedAt, outbox>>

\* events := reservation.GetEvents(): takes the pending events and clears them
UcGetEvents(c) ==
    /\ pc[c] = "persisted"
    /\ ent' = [ent EXCEPT ![c].out = ent[c].events, ![c].events = <<>>]
    /\ pc' = [pc EXCEPT ![c] = "publishing"]
    /\ UNCHANGED <<stored, res, loadedAt, writes, outbox>>

\* One turn of the publish loop: OutboxPublisher.Publish stores the row, or
\* fails and the use case logs the error and goes on.
UcPublish(c, dbOk) ==
    /\ pc[c] = "publishing"
    /\ ent[c].out # <<>>
    /\ Len(outbox) < MaxRows
    /\ outbox' = IF dbOk THEN Append(outbox, OutboxRow(Head(ent[c].out).type, "r1"))
                         ELSE outbox
    /\ ent' = [ent EXCEPT ![c].out = Tail(@)]
    /\ UNCHANGED <<stored, pc, res, loadedAt, writes>>

\* The use case returns.
UcReturn(c) ==
    /\ pc[c] = "publishing"
    /\ ent[c].out = <<>>
    /\ pc' = [pc EXCEPT ![c] = "done"]
    /\ UNCHANGED <<stored, ent, res, loadedAt, writes, outbox>>

\* The process running the use case dies.
Crash(c) ==
    /\ pc[c] \in {"new", "loaded", "mutated", "persisted", "publishing"}
    /\ pc' = [pc EXCEPT ![c] = "crashed"]
    /\ UNCHANGED <<stored, ent, res, loadedAt, writes, outbox>>

\* A later request is served: the next use case starts from scratch.
NextRequest(c) ==
    /\ pc[c] \in {"done", "crashed"}
    /\ pc' = [pc EXCEPT ![c] = "idle"]
    /\ ent' = [ent EXCEPT ![c] = NoEntity]
    /\ res' = [res EXCEPT ![c] = NoWrite]
    /\ loadedAt' = [loadedAt EXCEPT ![c] = 0]
    /\ UNCHANGED <<stored, writes, outbox>>

NextRepo ==
    \E c \in Clients :
        \/ \E q \in {1, 2} : UcNewReservation(c, q)
        \/ RepoCreate(c)
        \/ RepoGetByID(c)
        \/ UcConfirm(c)
        \/ RepoUpdate(c)
        \/ UcGetEvents(c)
        \/ \E dbOk \in BOOLEAN : UcPublish(c, dbOk)
        \/ UcReturn(c)
        \/ Crash(c)
        \/ NextRequest(c)

-----------------------------------------------------------------------------
(* Outbox dispatcher and event bus (Go) *)

NumWorkers == 2
\* dispatcher workers calling ProcessOutboxEvents against the same table

MaxRetries == 3
\* Where("processed_at IS NULL AND retries < ?", 3)

BatchLimit == 100
\* Limit(100)

Workers == 1..NumWorkers

EventTypes == {"ReservationCreated", "ReservationConfirmed", "ReservationCancelled"}

Handlers == {"billing", "notification"}

\* EventBus.handlers as built by Subscribe: the payment and the e-mail handler
\* on ReservationConfirmed, the notification handler on ReservationCancelled,
\* nothing on ReservationCreated.
Subscribers(type) ==
    CASE type = "ReservationConfirmed" -> {"billing", "notification"}
      [] type = "ReservationCancelled" -> {"notification"}
      [] OTHER -> {}

\* A bus that leaves out the handlers that have handled the event before
HandlersRun_SkipSucceeded(type, succeededBefore) == Subscribers(type) \ succeededBefore

\* EventBus.Publish: the handlers it starts are all of eb.handlers[eventType],
\* whichever of them handled the same event in an earlier attempt.
HandlersRun(type, succeededBefore) == Subscribers(type)

NoOutcome == [row |-> 0, known |-> FALSE, ok |-> {}, failed |-> {}, swallowed |-> FALSE]

Min(a, b) == IF a < b THEN a ELSE b

\* A condition that selects every unprocessed row
Selectable_NoCeiling(row) == ~row.processed

\* Where("processed_at IS NULL AND retries < ?", 3)
Selectable(row) == ~row.processed /\ row.retries < MaxRetries

RECURSIVE SelectRows(_, _)
\* Rows i..Len(table) that the query selects, as <<index, row as read>>, in
\* created_at order.
SelectRows(table, i) ==
    IF i > Len(table) THEN <<>>
    ELSE IF Selectable(table[i])
         THEN <<[idx |-> i, retries |-> table[i].retries]>> \o SelectRows(table, i + 1)
         ELSE SelectRows(table, i + 1)

\* A query that leaves out every row that has failed before.
FetchBatch_NoRetry(table) ==
    LET all == SelectRows(table, 1)
        fresh == SelectSeq(all, LAMBDA r : r.retries = 0)
    IN SubSeq(fresh, 1, Min(Len(fresh), BatchLimit))

\* The query of ProcessOutboxEvents: unprocessed rows below the retry ceiling,
\* oldest first, at most BatchLimit of them.
FetchBatch(table) ==
    LET all == SelectRows(table, 1) IN SubSeq(all, 1, Min(Len(all), BatchLimit))

\* HandleReservationCancelled asks billing for the refund before it sends the
\* notification; a failed refund is logged and the handler returns the result
\* of the notification alone.
RefundAttempted(type) == type = "ReservationCancelled"

\* The payments or refunds one delivery attempt makes the billing service
\* carry out: HandleReservationConfirmed calls ProcessPayment and
\* HandleReservationCancelled calls ProcessRefund on every delivery, without
\* looking for an earlier payment or refund of the same event.
BillingCalls(type, known, failed, refundFails) ==
    IF ~known THEN 0
    ELSE IF RefundAttempted(type) THEN (IF refundFails THEN 0 ELSE 1)
    ELSE IF "billing" \in Subscribers(type) \ failed THEN 1
    ELSE 0

\* processEvent: unknown event type, else the result of EventBus.Publish.
ProcessEventFails(known, failed) == ~known \/ failed # {}

\* The row after an attempt, as ProcessOutboxEvents writes it: retries from
\* the row as read plus one on failure, processed_at on success.
AfterAttempt(row, readRetries, fails) ==
    IF fails THEN [row EXCEPT !.retries = readRetries + 1]
             ELSE [row EXCEPT !.processed = TRUE]

\* The types an aggregate can emit after the events it already has in the outbox.
CanEmit(table, agg, type) ==
    LET types == {table[i].type : i \in {j \in 1..Len(table) : table[j].agg = agg}} IN
    CASE type = "ReservationCreated" -> types = {}
      [] type = "ReservationConfirmed" -> types = {"ReservationCreated"}
      [] type = "ReservationCancelled" ->
            "ReservationCreated" \in types /\ "ReservationCancelled" \notin types
      [] OTHER -> FALSE

InitDisp ==
    /\ registry = {"ReservationCreated", "ReservationConfirmed"}
    /\ batch = [w \in Workers |-> <<>>]
    /\ outcome = [w \in Workers |-> NoOutcome]
    /\ flaky = [h \in Handlers |-> TRUE]
    /\ handled = [i \in 1..MaxRows |-> {}]
    /\ billed = [i \in 1..MaxRows |-> 0]
    /\ deliveries = [i \in 1..MaxRows |-> [publishes |-> 0, invoked |-> [h \in Handlers |-> 0]]]

\* OutboxPublisher.RegisterEventType
RegisterEventType(type) ==
    /\ type \notin registry
    /\ registry' = registry \cup {type}
    /\ UNCHANGED <<outbox, batch, outcome, flaky, handled, billed, deliveries>>

\* OutboxPublisher.Publish, called by a use case for an event of aggregate agg
OutboxPublish(type, agg) ==
    /\ Len(outbox) < MaxRows
    /\ CanEmit(outbox, agg, type)
    /\ outbox' = Append(outbox, OutboxRow(type, agg))
    /\ UNCHANGED dispVars

\* ProcessOutboxEvents: the query
Fetch(w) ==
    /\ batch[w] = <<>>
    /\ FetchBatch(outbox) # <<>>
    /\ batch' = [batch EXCEPT ![w] = FetchBatch(outbox)]
    /\ UNCHANGED <<outbox, registry, outcome, flaky, handled, billed, deliveries>>

\* ProcessOutboxEvents: one turn of the loop. processEvent looks the type up
\* and EventBus.Publish runs every subscribed handler and waits for all of
\* them; `failed` are the handlers that return an error in this attempt and
\* refundFails tells whether the refund inside the cancellation handler failed.
ProcessOne(w, failed, refundFails) ==
    /\ batch[w] # <<>>
    /\ LET read  == Head(batch[w])
           row   == outbox[read.idx]
           known == row.type \in registry
           subs  == IF known THEN HandlersRun(row.type, handled[read.idx]) ELSE {}
       IN
        /\ failed \subseteq {h \in subs : flaky[h]}
        /\ refundFails => (known /\ RefundAttempted(row.type) /\ flaky["billing"])
        /\ outcome' = [outcome EXCEPT ![w] =
                          [row |-> read.idx, known |-> known,
                           ok |-> subs \ failed, failed |-> failed,
                           swallowed |-> refundFails]]
        /\ handled' = [handled EXCEPT ![read.idx] = @ \cup (subs \ failed)]
        /\ billed' = [billed EXCEPT ![read.idx] =
                          @ + BillingCalls(row.type, known, failed, refundFails)]
        /\ deliveries' =
              IF known
              THEN [deliveries EXCEPT ![read.idx] =
                       [publishes |-> @.publishes + 1,
                        invoked |-> [h \in Handlers |->
                                        @.invoked[h] + IF h \in subs THEN 1 ELSE 0]]]
              ELSE deliveries
        /\ outbox' = [outbox EXCEPT ![read.idx] =
                          AfterAttempt(row, read.retries, ProcessEventFails(known, failed))]
    /\ batch' = [batch EXCEPT ![w] = Tail(@)]
    /\ UNCHANGED <<registry, flaky>>

\* A handler's collaborator recovers: from now on the handler succeeds.
Recover(h) ==
    /\ flaky[h]
    /\ flaky' = [flaky EXCEPT ![h] = FALSE]
    /\ UNCHANGED <<outbox, registry, batch, outcome, handled, billed, deliveries>>

Producers ==
    \/ \E t \in EventTypes : RegisterEventType(t)
    \/ \E t \in EventTypes, a \in Aggregates : OutboxPublish(t, a)
    \/ \E h \in Handlers : Recover(h)

Dispatcher(w) ==
    \/ Fetch(w)
    \/ \E failed \in SUBSET Handlers, refundFails \in BOOLEAN :
           ProcessOne(w, failed, refundFails)

-----------------------------------------------------------------------------
(* EventBus.PublishWithRetry *)

\* No PublishWithRetry call has been made.
NoRetry ==
    [pc |-> "idle", type |-> "none", maxRetries |-> 0, attempt |-> 0,
     published |-> <<>>, lastErr |-> "", returned |-> "none"]

InitBus == retry = NoRetry

\* PublishWithRetry(ctx, event, maxRetries): lastErr is nil, attempt := 0
PublishWithRetry(type, maxRetries) ==
    /\ retry.pc = "idle"
    /\ retry' = [NoRetry EXCEPT !.pc = "loop", !.type = type, !.maxRetries = maxRetries]

\* A loop body that goes on to the next attempt after a success as well
RetryAttempt_NoStop(failed) ==
    /\ retry.pc = "loop"
    /\ retry.attempt <= retry.maxRetries
    /\ failed \subseteq Subscribers(retry.type)
    /\ retry' = [retry EXCEPT !.published = Append(@, failed),
                              !.lastErr = IF failed # {} THEN "event handling failed" ELSE @,
                              !.attempt = @ + 1]

\* One turn of the loop (attempt <= maxRetries): the backoff sleep, then
\* EventBus.Publish, which runs every subscribed handler, waits for all of
\* them and returns an error when any of them (failed) returned one; on
\* success PublishWithRetry returns nil, else it goes to the next attempt.
RetryAttempt(failed) ==
    /\ retry.pc = "loop"
    /\ retry.attempt <= retry.maxRetries
    /\ failed \subseteq Subscribers(retry.type)
    /\ retry' = IF failed # {}
                THEN [retry EXCEPT !.published = Append(@, failed),
                                   !.lastErr = "event handling failed",
                                   !.attempt = @ + 1]
                ELSE [retry EXCEPT !.published = Append(@, failed),
                                   !.pc = "returned",
                                   !.returned = "nil"]

\* The loop condition fails: return the error wrapping lastErr.
RetryExhausted ==
    /\ retry.pc = "loop"
    /\ retry.attempt > retry.maxRetries
    /\ retry' = [retry EXCEPT !.pc = "returned", !.returned = "failed to publish event"]

NextBus ==
    \/ \E t \in EventTypes, n \in 0..MaxRetriesArg : PublishWithRetry(t, n)
    \/ \E failed \in SUBSET Handlers : RetryAttempt(failed)
    \/ RetryExhausted

-----------------------------------------------------------------------------
(* Booking policy service *)

\* The policies of BookingPolicyService in the order validateBooking runs them
\* (TypeScript) and the order of NewBookingPolicyService (Go).
TsPolicies == <<"minimumStay", "advanceBooking", "blackoutDate">>

GoPolicies ==
    <<"MinimumAdvanceBooking", "MaximumAdvanceBooking", "MinimumStay",
      "MaximumStay", "GuestValidation">>

Policies(im) == IF im = "ts" THEN TsPolicies ELSE GoPolicies

\* The failure reason of a policy, as one piece of text.
Reason(p) == <<"reason of " \o p>>

NoVerdict == [isValid |-> FALSE, reason |-> <<"none">>]

Valid == [isValid |-> TRUE, reason |-> <<>>]

Failed(text) == [isValid |-> FALSE, reason |-> text]

RECURSIVE Join(_, _)
\* Array.prototype.join: the texts with the separator between neighbours.
Join(texts, sep) ==
    IF texts = <<>> THEN <<>>
    ELSE IF Len(texts) = 1 THEN texts[1]
    ELSE texts[1] \o <<sep>> \o Join(Tail(texts), sep)

\* The policies of ps that fail, in the order of ps.
FailedOf(ps, bad) == SelectSeq(ps, LAMBDA p : p \in bad)

RECURSIVE Reasons(_)
Reasons(ps) == IF ps = <<>> THEN <<>> ELSE <<Reason(Head(ps))>> \o Reasons(Tail(ps))

\* validateBooking (TypeScript): combine all results.
TsCombineResults(ps, bad) ==
    IF FailedOf(ps, bad) # <<>>
    THEN Failed(Join(Reasons(FailedOf(ps, bad)), "; "))
    ELSE Valid

\* ValidateBooking (Go): the error wrapped around the failure of policy p.
GoPolicyViolation(p) == Failed(<<"policy violation (" \o p \o "): ">> \o Reason(p))

\* No booking is being validated.
IdlePolicy == failing = {} /\ evaluated = <<>> /\ verdict = NoVerdict /\ hoursUntilCheckIn = 0

MinDays == 1
\* &MinimumAdvanceBookingPolicy{minDays: 1}

MaxDays == 365
\* &MaximumAdvanceBookingPolicy{maxDays: 365}

\* Reservation.DaysUntilCheckIn: int(hours / 24), which drops the fraction
\* (towards zero), and 0 for a check-in in the past.
DaysUntilCheckIn(hours) ==
    LET days == IF hours < 0 THEN 0 - ((0 - hours) \div 24) ELSE hours \div 24 IN
    IF days < 0 THEN 0 ELSE days

\* MinimumAdvanceBookingPolicy.Validate returns an error
MinimumAdvanceBookingFails(hours) == DaysUntilCheckIn(hours) < MinDays

\* MaximumAdvanceBookingPolicy.Validate returns an error
MaximumAdvanceBookingFails(hours) == DaysUntilCheckIn(hours) > MaxDays

\* A booking arrives that violates any set of the policies; the two
\* advance-booking policies of the Go service decide from the time to
\* check-in (in hours: the days around the two limits, and the past).
InitPolicy ==
    /\ impl \in {"ts", "go"}
    /\ NoAggregate
    /\ hoursUntilCheckIn \in IF impl = "ts" THEN {24}
                             ELSE {0 - 30, 0, 23, 24, 25, 8760, 8772, 8783, 8784}
    /\ failing \in SUBSET {Policies(impl)[k] : k \in 1..Len(Policies(impl))}
    /\ impl = "go" =>
          /\ "MinimumAdvanceBooking" \in failing <=> MinimumAdvanceBookingFails(hoursUntilCheckIn)
          /\ "MaximumAdvanceBooking" \in failing <=> MaximumAdvanceBookingFails(hoursUntilCheckIn)
    /\ evaluated = <<>>
    /\ verdict = NoVerdict

\* validateBooking (TypeScript): results.push(policy.validate(...))
TsEvaluate ==
    /\ impl = "ts"
    /\ verdict = NoVerdict
    /\ Len(evaluated) < Len(TsPolicies)
    /\ evaluated' = Append(evaluated, TsPolicies[Len(evaluated) + 1])
    /\ UNCHANGED <<failing, verdict, hoursUntilCheckIn>>

\* validateBooking (TypeScript): filter the failed results and return.
TsReturn ==
    /\ impl = "ts"
    /\ verdict = NoVerdict
    /\ Len(evaluated) = Len(TsPolicies)
    /\ verdict' = TsCombineResults(evaluated, failing)
    /\ UNCHANGED <<failing, evaluated, hoursUntilCheckIn>>

\* ValidateBooking (Go): one turn of the loop; a failing policy ends it.
GoEvaluate ==
    /\ impl = "go"
    /\ verdict = NoVerdict
    /\ Len(evaluated) < Len(GoPolicies)
    /\ LET p == GoPolicies[Len(evaluated) + 1] IN
        /\ evaluated' = Append(evaluated, p)
        /\ verdict' = IF p \in failing THEN GoPolicyViolation(p) ELSE verdict
    /\ UNCHANGED <<failing, hoursUntilCheckIn>>

\* ValidateBooking (Go): return nil after the loop.
GoReturn ==
    /\ impl = "go"
    /\ verdict = NoVerdict
    /\ Len(evaluated) = Len(GoPolicies)
    /\ verdict' = Valid
    /\ UNCHANGED <<failing, evaluated, hoursUntilCheckIn>>

NextPolicy == TsEvaluate \/ TsReturn \/ GoEvaluate \/ GoReturn

-----------------------------------------------------------------------------
(* Money (valueobject.Money of the enhanced implementation) *)

RECURSIVE GCD(_, _)
GCD(a, b) == IF b = 0 THEN a ELSE GCD(b, a % b)

\* big.Rat: a fraction in lowest terms with a positive denominator.
Rat(n, d) ==
    LET g == GCD(IF n < 0 THEN 0 - n ELSE n, d) IN [num |-> n \div g, den |-> d \div g]

RatAdd(a, b) == Rat(a.num * b.den + b.num * a.den, a.den * b.den)

RatSub(a, b) == Rat(a.num * b.den - b.num * a.den, a.den * b.den)

RatMul(a, b) == Rat(a.num * b.num, a.den * b.den)

\* The amount of the zero value Money{}: a nil *big.Rat (no fraction has
\* the denominator 0).
NilRat == [num |-> 0, den |-> 0]

GoMoney(amount, currency) == [amount |-> amount, currency |-> currency]

\* valueobject.Money{}
ZeroMoney == GoMoney(NilRat, "")

ValidCurrencies == {"USD", "EUR", "GBP"}

\* What a function returning (Money, error) returns.
MoneyOk(m) == [err |-> "", money |-> m]

MoneyErr(msg) == [err |-> msg, money |-> ZeroMoney]

\* A method called on the nil amount of Money{} panics.
MoneyPanic == MoneyErr("panic: nil pointer dereference")

\* NewMoney: validates the currency only.
GoNewMoney(amountCents, currency) ==
    IF currency \notin ValidCurrencies
    THEN MoneyErr("invalid currency")
    ELSE MoneyOk(GoMoney(Rat(amountCents, 100), currency))

\* Add that does not compare the currencies
GoAdd_NoCurrencyCheck(m, other) ==
    IF m.amount = NilRat \/ other.amount = NilRat THEN MoneyPanic
    ELSE MoneyOk(GoMoney(RatAdd(m.amount, other.amount), m.currency))

\* Money.Add
GoAdd(m, other) ==
    IF m.currency # other.currency
    THEN MoneyErr("cannot add different currencies")
    ELSE IF m.amount = NilRat \/ other.amount = NilRat THEN MoneyPanic
    ELSE MoneyOk(GoMoney(RatAdd(m.amount, other.amount), m.currency))

\* Money.Subtract
GoSubtract(m, other) ==
    IF m.currency # other.currency
    THEN MoneyErr("cannot subtract different currencies")
    ELSE IF m.amount = NilRat \/ other.amount = NilRat THEN MoneyPanic
    ELSE LET r == RatSub(m.amount, other.amount) IN
         IF r.num < 0 THEN MoneyErr("result cannot be negative")
         ELSE MoneyOk(GoMoney(r, m.currency))

\* Money.Multiply; f10k is int64(factor*10000), the factor in ten-thousandths.
GoMultiply(m, f10k) == GoMoney(RatMul(m.amount, Rat(f10k, 10000)), m.currency)

-----------------------------------------------------------------------------
(* Rate calculator (RateCalculatorService) *)

RoomTypes == {"deluxe-king", "standard-twin"}

\* No entry in baseRates for a room type.
NoRate == [amount |-> NilRat, currency |-> "absent"]

\* Dates are days counted from Thursday 26 February: days 0..2 are in
\* February, the later ones in March.
Month(d) == IF d <= 2 THEN 2 ELSE 3

\* time.Weekday: Sunday = 0 ... Saturday = 6
Weekday(d) == (4 + d) % 7

DateRanges == {<<0, 3>>, <<2, 3>>}

GuestCounts == {2, 3}

\* getSeason
getSeason(d) ==
    IF Month(d) >= 12 \/ Month(d) <= 2 THEN "low"
    ELSE IF Month(d) >= 3 /\ Month(d) <= 5 THEN "medium"
    ELSE IF Month(d) >= 6 /\ Month(d) <= 8 THEN "high"
    ELSE "medium"

\* seasonalMultipliers, in ten-thousandths
seasonalMultipliers(season) ==
    CASE season = "low" -> 8000
      [] season = "medium" -> 10000
      [] season = "high" -> 15000
      [] season = "peak" -> 20000

\* dayOfWeekMultipliers, in ten-thousandths
dayOfWeekMultipliers(wd) ==
    CASE wd \in 1..4 -> 9000
      [] wd = 5 -> 11000
      [] wd = 6 -> 13000
      [] wd = 0 -> 12000

\* getBaseRate: the rate set for the room type, else the default rate.
getBaseRate(rates, rt) ==
    IF rates[rt] # NoRate THEN rates[rt] ELSE GoNewMoney(10000, "USD").money

\* calculateDailyRate
calculateDailyRate(baseRate, d, guestCount) ==
    LET seasonal == GoMultiply(baseRate, seasonalMultipliers(getSeason(d)))
        daily == GoMultiply(seasonal, dayOfWeekMultipliers(Weekday(d)))
    IN  IF guestCount > 2
        THEN GoMultiply(daily, 10000 + (guestCount - 2) * 1000)
        ELSE daily

\* applyTaxes: 12% on the total
applyTaxes(amount) == GoMultiply(amount, 11200)

RECURSIVE SumDays(_, _, _, _, _)
\* The loop of CalculateRate over the days of [checkIn, checkOut).
SumDays(total, currentDate, checkOut, baseRate, guestCount) ==
    IF ~(currentDate < checkOut) THEN MoneyOk(total)
    ELSE LET sum == GoAdd(total, calculateDailyRate(baseRate, currentDate, guestCount)) IN
         IF sum.err # ""
         THEN MoneyErr("failed to add daily rate")
         ELSE SumDays(sum.money, currentDate + 1, checkOut, baseRate, guestCount)

\* The key of a cached rate: room type, date range and guest count.
cacheKey(rt, range, guestCount) == <<rt, range, guestCount>>

NoEntry == "miss"

\* json.Marshal of a Money: its fields are unexported and it has no
\* marshaller of its own, so the text is an empty object.
MarshalMoney(m) == "{}"

\* json.Unmarshal into a Money: nothing in the text can set its fields.
UnmarshalMoney(text) == ZeroMoney

\* CalculateRate after a cache miss: what it returns.
Calculated(rates, rt, range, guestCount) ==
    LET baseRate == getBaseRate(rates, rt) IN
    IF baseRate.amount.num = 0
    THEN MoneyErr("no base rate found for room type")
    ELSE LET sum == SumDays(ZeroMoney, range[1], range[2], baseRate, guestCount) IN
         IF sum.err # "" THEN sum ELSE MoneyOk(applyTaxes(sum.money))

\* No CalculateRatesForMultipleRooms call has been made.
NoMulti ==
    [pc |-> "idle", roomTypes |-> {}, range |-> <<0, 0>>, guestCount |-> 0,
     running |-> {}, deferred |-> {}, resultChan |-> {}, received |-> 0,
     results |-> {}, errors |-> 0]

InitRate ==
    /\ baseRates = [rt \in RoomTypes |-> NoRate]
    /\ cache = [k \in {cacheKey(rt, range, g) :
                           rt \in RoomTypes, range \in DateRanges, g \in GuestCounts}
                   |-> NoEntry]
    /\ calcLog = {}
    /\ multi = NoMulti

\* SetBaseRate, called while no bulk calculation is collecting results and
\* the process is alive
SetBaseRate(rt, rate) ==
    /\ multi.pc \in {"idle", "returned"}
    /\ baseRates' = [baseRates EXCEPT ![rt] = rate]
    /\ UNCHANGED <<cache, calcLog, multi>>

\* What CalculateRate returns: the cached rate as it is, else the calculated one.
CalculateRateResult(rt, range, guestCount) ==
    IF cache[cacheKey(rt, range, guestCount)] # NoEntry
    THEN MoneyOk(UnmarshalMoney(cache[cacheKey(rt, range, guestCount)]))
    ELSE Calculated(baseRates, rt, range, guestCount)

\* CalculateRate: a cached rate is returned as it is; else the rate is
\* calculated and, when that succeeds, stored in the cache.
CalculateRate(rt, range, guestCount) ==
    LET key == cacheKey(rt, range, guestCount)
        out == CalculateRateResult(rt, range, guestCount)
    IN  /\ Cardinality(calcLog) < MaxCalcs
        /\ calcLog' = calcLog \cup {[key |-> key, table |-> baseRates, out |-> out]}
        /\ cache' = IF cache[key] = NoEntry /\ out.err = ""
                    THEN [cache EXCEPT ![key] = MarshalMoney(out.money)]
                    ELSE cache
        /\ UNCHANGED baseRates

\* CalculateRatesForMultipleRooms: makes the result channel and starts one
\* goroutine per room type.
CalculateRatesForMultipleRooms(rts, range, guestCount) ==
    /\ multi.pc = "idle"
    /\ multi' = [NoMulti EXCEPT !.pc = "collecting", !.roomTypes = rts, !.range = range,
                                !.guestCount = guestCount, !.running = rts]
    /\ UNCHANGED <<baseRates, cache, calcLog>>

\* The goroutine of a room type: s.CalculateRate and the send of its result
\* on the buffered channel; the deferred wg.Done() is still to run.
GoroutineCalculate(rt) ==
    /\ multi.pc \in {"collecting", "returned"}
    /\ rt \in multi.running
    /\ CalculateRate(rt, multi.range, multi.guestCount)
    /\ multi' = [multi EXCEPT
                     !.running = @ \ {rt},
                     !.deferred = @ \cup {rt},
                     !.resultChan = @ \cup {[roomTypeID |-> rt,
                         out |-> CalculateRateResult(rt, multi.range, multi.guestCount)]}]

\* The goroutine's deferred wg.Done(): the function declares no WaitGroup
\* and calls Add on none, so Done finds the counter at zero and panics
\* ("sync: negative WaitGroup counter"), which ends the process.
GoroutineDone(rt) ==
    /\ multi.pc \in {"collecting", "returned"}
    /\ rt \in multi.deferred
    /\ multi' = [multi EXCEPT !.pc = "panicked"]
    /\ UNCHANGED <<baseRates, cache, calcLog>>

\* CalculateRatesForMultipleRooms: one turn of the loop that collects results
CollectResult(r) ==
    /\ multi.pc = "collecting"
    /\ multi.received < Cardinality(multi.roomTypes)
    /\ r \in multi.resultChan
    /\ multi' = [multi EXCEPT
                     !.resultChan = @ \ {r},
                     !.received = @ + 1,
                     !.errors = IF r.out.err # "" THEN @ + 1 ELSE @,
                     !.results = IF r.out.err # "" THEN @
                                 ELSE @ \cup {[roomTypeID |-> r.roomTypeID,
                                               rate |-> r.out.money]}]
    /\ UNCHANGED <<baseRates, cache, calcLog>>

\* CalculateRatesForMultipleRooms: the return after the loop
ReturnResults ==
    /\ multi.pc = "collecting"
    /\ multi.received = Cardinality(multi.roomTypes)
    /\ multi' = [multi EXCEPT !.pc = "returned"]
    /\ UNCHANGED <<baseRates, cache, calcLog>>

NextRate ==
    \/ \E rt \in RoomTypes, rate \in {GoMoney(Rat(0, 100), "USD"), GoMoney(Rat(20000, 100), "USD"),
                                       GoMoney(Rat(20000, 100), "EUR")} : SetBaseRate(rt, rate)
    \/ \E rt \in RoomTypes, range \in DateRanges, g \in GuestCounts :
           multi.pc # "panicked" /\ CalculateRate(rt, range, g) /\ UNCHANGED multi
    \/ \E range \in DateRanges, g \in GuestCounts :
           CalculateRatesForMultipleRooms(RoomTypes, range, g)
    \/ \E rt \in RoomTypes : GoroutineCalculate(rt)
    \/ \E rt \in RoomTypes : GoroutineDone(rt)
    \/ \E r \in multi.resultChan : CollectResult(r)
    \/ ReturnResults

-----------------------------------------------------------------------------
(* CreateReservationUseCase.execute *)

Requests == 1..MaxRequests

NoError == "none"

NoPortCalls == [holdRooms |-> 0, save |-> 0, publishEvents |-> 0]

InitUseCase ==
    /\ request = 0
    /\ ucPc = "idle"
    /\ answers = [r \in Requests |-> [policy |-> "unasked", availability |-> "unasked"]]
    /\ ucError = [r \in Requests |-> NoError]
    /\ portCalls = [r \in Requests |-> NoPortCalls]
    /\ published = [r \in Requests |-> <<>>]

\* execute throws: the call is over.
Throw(exception) ==
    /\ ucPc' = "failed"
    /\ ucError' = [ucError EXCEPT ![request] = exception]

\* 1, 2: validateRequest and the construction of the value objects; both
\* throw ValidationException. No aggregate exists yet.
UcExecute(wellFormed) ==
    /\ ucPc \in {"idle", "done", "failed"}
    /\ request < MaxRequests
    /\ request' = request + 1
    /\ IF wellFormed
       THEN ucPc' = "validated" /\ UNCHANGED ucError
       ELSE /\ ucPc' = "failed"
            /\ ucError' = [ucError EXCEPT ![request + 1] = "ValidationException"]
    /\ status' = "None"
    /\ confirmationNumber' = 0
    /\ totalAmount' = 0
    /\ events' = <<>>
    /\ result' = NoResult
    /\ lastOp' = "none"
    /\ calls' = 0
    /\ arg' = NoArg
    /\ roomBookings' = NoArg
    /\ eventStore' = <<>>
    /\ UNCHANGED <<impl, answers, portCalls, published>>

\* Availability check whose answer is not looked at
UcCheckAvailability_Ignored(isAvailable) ==
    /\ ucPc = "policyOk"
    /\ answers' = [answers EXCEPT ![request].availability =
                       IF isAvailable THEN "available" ELSE "unavailable"]
    /\ ucPc' = "available"
    /\ UNCHANGED <<request, ucError, portCalls, published, aggVars>>

\* 3: bookingPolicyService.validateBooking and the check of its result
UcValidateBooking(isValid) ==
    /\ ucPc = "validated"
    /\ answers' = [answers EXCEPT ![request].policy = IF isValid THEN "valid" ELSE "invalid"]
    /\ IF isValid
       THEN ucPc' = "policyOk" /\ UNCHANGED ucError
       ELSE Throw("BusinessRuleViolationException")
    /\ UNCHANGED <<request, portCalls, published, aggVars>>

\* 4: roomAvailabilityPort.checkAvailability and the check of its result
UcCheckAvailability(isAvailable) ==
    /\ ucPc = "policyOk"
    /\ answers' = [answers EXCEPT ![request].availability =
                       IF isAvailable THEN "available" ELSE "unavailable"]
    /\ IF isAvailable
       THEN ucPc' = "available" /\ UNCHANGED ucError
       ELSE Throw("RoomsNotAvailableException")
    /\ UNCHANGED <<request, portCalls, published, aggVars>>

\* 5, 6: ReservationAggregate.create
UcCreate ==
    /\ ucPc = "available"
    /\ TsCreate("valid")
    /\ ucPc' = "created"
    /\ UNCHANGED <<request, answers, ucError, portCalls, published>>

\* 6: reservation.calculateTotal(rateCalculatorService)
UcCalculateTotal(amount) ==
    /\ ucPc = "created"
    /\ TsCalculateTotal(amount)
    /\ ucPc' = "priced"
    /\ UNCHANGED <<request, answers, ucError, portCalls, published>>

\* 7: roomAvailabilityPort.holdRooms; the port can reject.
UcHoldRooms(ok) ==
    /\ ucPc = "priced"
    /\ portCalls' = [portCalls EXCEPT ![request].holdRooms = @ + 1]
    /\ IF ok THEN ucPc' = "held" /\ UNCHANGED ucError ELSE Throw("PortError")
    /\ UNCHANGED <<request, answers, published, aggVars>>

\* 8: reservationRepository.save, which stores the uncommitted events and
\* marks them committed; the write can fail.
UcSave(ok) ==
    /\ ucPc = "held"
    /\ portCalls' = [portCalls EXCEPT ![request].save = @ + 1]
    /\ IF ok
       THEN TsSave /\ ucPc' = "saved" /\ UNCHANGED ucError
       ELSE Throw("PortError") /\ UNCHANGED aggVars
    /\ UNCHANGED <<request, answers, published>>

\* 9: eventBus.publishEvents(reservation.getUncommittedEvents())
UcPublishEvents ==
    /\ ucPc = "saved"
    /\ portCalls' = [portCalls EXCEPT ![request].publishEvents = @ + 1]
    /\ published' = [published EXCEPT ![request] = Append(@, events)]
    /\ ucPc' = "published"
    /\ UNCHANGED <<request, answers, ucError, aggVars>>

\* 9: reservation.markEventsAsCommitted() and the return of the response
UcMarkCommitted ==
    /\ ucPc = "published"
    /\ markEventsAsCommitted
    /\ ucPc' = "done"
    /\ UNCHANGED <<request, answers, ucError, portCalls, published>>
    /\ UNCHANGED <<impl, status, confirmationNumber, totalAmount, result, lastOp, calls, arg,
                    roomBookings, eventStore>>

NextUseCase ==
    \/ \E wellFormed \in BOOLEAN : UcExecute(wellFormed)
    \/ \E isValid \in BOOLEAN : UcValidateBooking(isValid)
    \/ \E isAvailable \in BOOLEAN : UcCheckAvailability(isAvailable)
    \/ UcCreate
    \/ \E a \in Amounts : UcCalculateTotal(a)
    \/ \E ok \in BOOLEAN : UcHoldRooms(ok)
    \/ \E ok \in BOOLEAN : UcSave(ok)
    \/ UcPublishEvents
    \/ UcMarkCommitted

-----------------------------------------------------------------------------
(* Money (TypeScript Money) and the callers of Money *)

\* new Money(amount, currency)
TsMoney(amount, currency) ==
    IF amount.num < 0
    THEN MoneyErr("Money amount cannot be negative")
    ELSE MoneyOk(GoMoney(amount, currency))

\* Money.add
TsAdd(m, other) ==
    IF m.currency # other.currency
    THEN MoneyErr("Cannot operate on different currencies")
    ELSE TsMoney(RatAdd(m.amount, other.amount), m.currency)

\* Money.subtract
TsSubtract(m, other) ==
    IF m.currency # other.currency
    THEN MoneyErr("Cannot operate on different currencies")
    ELSE LET r == RatSub(m.amount, other.amount) IN
         IF r.num < 0 THEN MoneyErr("Insufficient funds")
         ELSE TsMoney(r, m.currency)

\* Money.multiply; the factor in ten-thousandths
TsMultiply(m, f10k) == TsMoney(RatMul(m.amount, Rat(f10k, 10000)), m.currency)

Slots == {1, 2}

NoMoney == [amount |-> NilRat, currency |-> "none"]

InitMoney ==
    /\ held = [i \in Slots |-> NoMoney]
    /\ moneyCall = [op |-> "none", a |-> NoMoney, b |-> NoMoney, out |-> MoneyErr("none")]
    /\ moneyOps = 0

\* A Money operation was called: the caller keeps the Money it got, if any.
MoneyCalled(op, a, b, out, slot) ==
    /\ moneyOps < MaxMoneyOps
    /\ moneyOps' = moneyOps + 1
    /\ moneyCall' = [op |-> op, a |-> a, b |-> b, out |-> out]
    /\ held' = IF out.err = "" THEN [held EXCEPT ![slot] = out.money] ELSE held

\* new Money(amount, currency) / NewMoney(amountCents, currency); the type
\* of the TypeScript parameter admits the members of Currency only.
NewMoneyCall(slot, cents, currency) ==
    /\ impl = "ts" => currency \in ValidCurrencies
    /\ MoneyCalled("new", NoMoney, NoMoney,
                   IF impl = "ts" THEN TsMoney(Rat(cents, 100), currency)
                                  ELSE GoNewMoney(cents, currency),
                   slot)

\* a.add(b) / a.Add(b)
AddCall ==
    /\ held[1] # NoMoney /\ held[2] # NoMoney
    /\ MoneyCalled("add", held[1], held[2],
                   IF impl = "ts" THEN TsAdd(held[1], held[2]) ELSE GoAdd(held[1], held[2]),
                   1)

\* a.subtract(b) / a.Subtract(b)
SubtractCall ==
    /\ held[1] # NoMoney /\ held[2] # NoMoney
    /\ MoneyCalled("subtract", held[1], held[2],
                   IF impl = "ts" THEN TsSubtract(held[1], held[2])
                                  ELSE GoSubtract(held[1], held[2]),
                   1)

\* a.multiply(factor) / a.Multiply(factor), which returns no error
MultiplyCall(slot, f10k) ==
    /\ held[slot] # NoMoney
    /\ MoneyCalled("multiply", held[slot], NoMoney,
                   IF impl = "ts" THEN TsMultiply(held[slot], f10k)
                                  ELSE MoneyOk(GoMultiply(held[slot], f10k)),
                   slot)

NextMoney ==
    \/ \E slot \in Slots, cents \in {0 - 100, 0, 300}, c \in {"USD", "EUR", "XXX"} :
           NewMoneyCall(slot, cents, c)
    \/ AddCall
    \/ SubtractCall
    \/ \E slot \in Slots, f \in {0 - 10000, 15000} : MultiplyCall(slot, f)

-----------------------------------------------------------------------------
(* DateRange *)

\* Points in time: check-in, check-out and the time of the call.
Times == 0..4

\* What a DateRange construction returns.
RangeOk(checkIn, checkOut) == [err |-> "", checkIn |-> checkIn, checkOut |-> checkOut]

RangeErr(msg) == [err |-> msg, checkIn |-> 0, checkOut |-> 0]

\* new DateRange(checkInDate, checkOutDate), called at the time now
TsDateRange(checkIn, checkOut, now) ==
    IF checkIn >= checkOut
    THEN RangeErr("Check-out date must be after check-in date")
    ELSE IF checkIn < now
    THEN RangeErr("Check-in date cannot be in the past")
    ELSE RangeOk(checkIn, checkOut)

\* valueobject.NewDateRange(checkIn, checkOut)
NewDateRange(checkIn, checkOut) ==
    IF checkIn > checkOut \/ checkIn = checkOut
    THEN RangeErr("check-out date must be after check-in date")
    ELSE RangeOk(checkIn, checkOut)

NoRangeCall == [checkIn |-> 0, checkOut |-> 0, now |-> 0, out |-> RangeErr("none")]

InitDates == rangeCall = NoRangeCall

NewDateRangeCall(checkIn, checkOut, now) ==
    rangeCall' = [checkIn |-> checkIn, checkOut |-> checkOut, now |-> now,
                  out |-> IF impl = "ts" THEN TsDateRange(checkIn, checkOut, now)
                                         ELSE NewDateRange(checkIn, checkOut)]

NextDates == \E checkIn \in Times, checkOut \in Times, now \in Times :
                 NewDateRangeCall(checkIn, checkOut, now)

-----------------------------------------------------------------------------
(* Specifications *)

\* The parts a specification does not exercise stay in their initial state.
IdleAgg == impl = "ts" /\ NoAggregate

IdleExt == InitRate /\ InitUseCase /\ InitMoney /\ InitDates /\ InitBus

Init ==
    /\ impl \in {"ts", "go", "mvp"}
    /\ NoAggregate
    /\ InitRepo /\ InitDisp /\ outbox = <<>> /\ IdlePolicy /\ IdleExt

\* The aggregate alone.
SpecAgg == Init /\ [][NextAgg /\ UNCHANGED <<repoVars, outbox, dispVars, policyVars, extVars>>]_vars

\* The services after wiring, no aggregate in memory.
InitServices == IdleAgg /\ InitRepo /\ InitDisp /\ outbox = <<>> /\ IdlePolicy /\ IdleExt

\* The use cases, the repository and the outbox table.
SpecRepo ==
    /\ InitServices
    /\ [][NextRepo /\ UNCHANGED <<aggVars, dispVars, policyVars, extVars>>]_vars

\* One dispatcher.
NextDispatch == (Producers \/ Dispatcher(1)) /\ UNCHANGED <<aggVars, repoVars, policyVars, extVars>>

SpecDispatch ==
    /\ InitServices
    /\ [][NextDispatch]_vars

\* One dispatcher that keeps running, handlers that eventually stop failing,
\* event types that are eventually registered.
SpecDispatchFair ==
    /\ SpecDispatch
    /\ WF_vars(Dispatcher(1) /\ UNCHANGED <<aggVars, repoVars, policyVars, extVars>>)
    /\ \A h \in Handlers : WF_vars(Recover(h) /\ UNCHANGED <<aggVars, repoVars, policyVars, extVars>>)
    /\ \A t \in EventTypes : WF_vars(RegisterEventType(t) /\ UNCHANGED <<aggVars, repoVars, policyVars, extVars>>)

\* Several dispatcher workers on the same table.
MaxWorkerRows == 2
\* rows in the table while several workers run

\* The event types are registered at start-up.
InitWorkers ==
    /\ IdleAgg /\ InitRepo /\ outbox = <<>> /\ IdlePolicy /\ IdleExt
    /\ registry = EventTypes
    /\ batch = [w \in Workers |-> <<>>]
    /\ outcome = [w \in Workers |-> NoOutcome]
    /\ flaky = [h \in Handlers |-> TRUE]
    /\ handled = [i \in 1..MaxRows |-> {}]
    /\ billed = [i \in 1..MaxRows |-> 0]
    /\ deliveries = [i \in 1..MaxRows |-> [publishes |-> 0, invoked |-> [h \in Handlers |-> 0]]]

NextWorkers ==
    /\ \/ \E t \in EventTypes, a \in Aggregates :
             Len(outbox) < MaxWorkerRows /\ OutboxPublish(t, a)
       \/ \E h \in Handlers : Recover(h)
       \/ \E w \in Workers : Dispatcher(w)
    /\ UNCHANGED <<aggVars, repoVars, policyVars, extVars>>

SpecWorkers == InitWorkers /\ [][NextWorkers]_vars

\* The booking policy service validating one booking.
InitPolicyService == InitPolicy /\ InitRepo /\ InitDisp /\ outbox = <<>> /\ IdleExt

SpecPolicy ==
    /\ InitPolicyService
    /\ [][NextPolicy /\ UNCHANGED <<aggVars, repoVars, outbox, dispVars, extVars>>]_vars

Next == NextAgg /\ UNCHANGED <<repoVars, outbox, dispVars, policyVars, extVars>>

SpecRate ==
    /\ InitServices
    /\ [][NextRate /\ UNCHANGED <<aggVars, repoVars, outbox, dispVars, policyVars, ucVars, valVars,
                                    dateVars, busVars>>]_vars

\* The use case with the aggregate it creates and the event store.
SpecUseCase ==
    /\ InitServices
    /\ [][NextUseCase
             /\ UNCHANGED <<repoVars, outbox, dispVars, policyVars, rateVars, valVars, dateVars,
                             busVars>>]_vars

\* The value objects of either implementation, no aggregate in memory.
InitValueObjects ==
    /\ impl \in {"ts", "go"}
    /\ NoAggregate
    /\ InitRepo /\ InitDisp /\ outbox = <<>> /\ IdlePolicy /\ IdleExt

\* Money and its callers.
SpecMoney ==
    /\ InitValueObjects
    /\ [][NextMoney /\ UNCHANGED <<aggVars, repoVars, outbox, dispVars, policyVars,
                                     rateVars, ucVars, dateVars, busVars>>]_vars

\* DateRange and its callers.
SpecDates ==
    /\ InitValueObjects
    /\ [][NextDates /\ UNCHANGED <<aggVars, repoVars, outbox, dispVars, policyVars,
                                     rateVars, ucVars, valVars, busVars>>]_vars

\* The event bus publishing one event with retries.
SpecRetry ==
    /\ InitServices
    /\ [][NextBus /\ UNCHANGED <<aggVars, repoVars, outbox, dispVars, policyVars,
                                   rateVars, ucVars, valVars, dateVars>>]_vars

\* PublishWithRetry runs in one goroutine that is not stopped: its loop
\* keeps taking steps (Publish waits for handlers that return, the backoff
\* sleep is finite).
SpecRetryFair ==
    /\ SpecRetry
    /\ WF_vars(NextBus /\ UNCHANGED <<aggVars, repoVars, outbox, dispVars, policyVars,
                                       rateVars, ucVars, valVars, dateVars>>)

Spec == SpecAgg

-----------------------------------------------------------------------------
(* The reservation state machine *)

LegalTransitions ==
    {<<"Pending", "Confirmed">>, <<"Confirmed", "Completed">>,
     <<"Pending", "Cancelled">>, <<"Confirmed", "Cancelled">>}

\* C1: under every sequence of confirm and cancel calls, each status change of
\* a Reservation is Pending->Confirmed, Confirmed->Completed,
\* Pending->Cancelled or Confirmed->Cancelled; in particular a Cancelled or
\* Completed reservation never changes status again.
C1_LegalTransitions ==
    [][status # "None" /\ status' # status => <<status, status'>> \in LegalTransitions]_vars

\* C1 witness: cancel was called on a Completed reservation and was refused.
C1_Witness ==
    /\ status = "Completed"
    /\ lastOp = "cancel"
    /\ result.kind \notin {"ok", "none"}

\* A step that is a call of confirm.
ConfirmCall == calls' = calls + 1 /\ lastOp' = "confirm"

\* The error of the state guard of confirm (the InvalidStateTransition of the
\* design): DomainException "Only pending reservations can be confirmed" in
\* ReservationAggregate, BusinessRuleViolation "cannot confirm reservation in
\* status ..." in entity.Reservation, ValidationError "only pending
\* reservations can be confirmed" in the technical foundation.
NotPendingError(r) ==
    \/ r = Err("DomainException", "Only pending reservations can be confirmed")
    \/ r = Err("BusinessRuleViolation", "cannot confirm reservation in status")
    \/ r = Err("ValidationError", "only pending reservations can be confirmed")

\* C2: confirm on a reservation that is not Pending fails with the state
\* guard's error, appends no event and leaves status and confirmationNumber
\* as they were; so the second of two consecutive confirm calls fails.
C2_ConfirmNotPendingFails ==
    [][ConfirmCall /\ status # "Pending" =>
          /\ NotPendingError(result')
          /\ events' = events
          /\ status' = status
          /\ confirmationNumber' = confirmationNumber]_vars

\* C2 witness: a second confirm directly after a successful one has failed,
\* the reservation is still Confirmed with the events of create and confirm.
C2_Witness ==
    /\ lastOp = "confirm"
    /\ NotPendingError(result)
    /\ status = "Confirmed"
    /\ Len(events) = 2
    /\ calls = 3

-----------------------------------------------------------------------------
(* Optimistic concurrency control and the atomic write *)

\* Use case c has called the repository's Update.
HasWritten(c) == res[c].kind # "none"

\* C3: when two use cases load the reservation at the same version, each
\* mutates its copy and each calls Update, exactly one Update succeeds and the
\* other fails with the concurrency error.
C3_ExactlyOneWriteSucceeds ==
    \A c1, c2 \in Clients :
        (c1 # c2 /\ HasWritten(c1) /\ HasWritten(c2) /\ loadedAt[c1] = loadedAt[c2])
            => {res[c1].kind, res[c2].kind} = {"ok", "ConcurrencyError"}

\* C4: an Update of a reservation loaded at the stored version, with no write
\* by anyone else in between, succeeds, and the row then has the new status.
C4_FreshWriteSucceeds ==
    \A c \in Clients :
        (HasWritten(c) /\ res[c].fresh) =>
            /\ res[c].kind = "ok"
            /\ pc[c] = "persisted" => stored.status = ent[c].status

\* C5: the stored version is the number of successful writes (each adds
\* exactly 1, a failed write adds nothing), and a freshly loaded aggregate
\* carries the stored version.
C5_VersionCountsWrites ==
    /\ stored # NoRow => stored.version = writes
    /\ \A c \in Clients :
           (pc[c] = "loaded" /\ loadedAt[c] = writes) => ent[c].version = stored.version

\* The events whose effect the stored row shows.
EventsPersisted(row) ==
    IF row = NoRow THEN {}
    ELSE {"BookingCreated"} \cup (IF row.status = "Confirmed" THEN {"BookingConfirmed"} ELSE {})

\* C6: state and outbox rows are written in one atomic step: in every
\* reachable state the persisted state changes are exactly those whose events
\* have an outbox row.
C6_StateIffOutboxRows ==
    EventsPersisted(stored) = {outbox[i].type : i \in 1..Len(outbox)}

-----------------------------------------------------------------------------
(* Event delivery *)

Rows == 1..MaxRows

Exists(i) == i <= Len(outbox)

\* Every handler subscribed to the type of row i has handled it successfully.
Delivered(i) == Exists(i) /\ Subscribers(outbox[i].type) \subseteq handled[i]

\* Row i has reached the retry ceiling and is left for manual intervention.
Poisoned(i) == Exists(i) /\ ~outbox[i].processed /\ outbox[i].retries >= MaxRetries

Attempt(w) == batch[w] # <<>> /\ batch'[w] = Tail(batch[w])

\* C8: the dispatcher marks a row processed only if the attempt reached all
\* subscribers of its type and the handling of every one of them succeeded; if
\* the handling of a subscriber fails, the row stays unprocessed and its retry
\* count grows by exactly 1.
C8_ProcessedOnlyOnFullSuccess ==
    [][\A w \in Workers :
          Attempt(w) =>
              LET i == Head(batch[w]).idx IN
              /\ (outbox'[i].processed /\ ~outbox[i].processed) =>
                     /\ outcome'[w].known
                     /\ outcome'[w].ok = Subscribers(outbox[i].type)
                     /\ outcome'[w].failed = {}
                     /\ ~outcome'[w].swallowed
              /\ (outcome'[w].failed # {} \/ outcome'[w].swallowed) =>
                     /\ ~outbox'[i].processed
                     /\ outbox'[i].retries = outbox[i].retries + 1]_vars

\* C9: of two events of the same aggregate, a subscriber of both handles the
\* earlier-created one before the later-created one, also when a delivery
\* attempt of the earlier one fails and is retried.
C9_PerAggregateOrder ==
    \A i, j \in Rows :
        (i < j /\ Exists(j) /\ outbox[i].agg = outbox[j].agg) =>
            \A h \in Subscribers(outbox[i].type) \cap Subscribers(outbox[j].type) :
                h \in handled[j] => h \in handled[i]

\* The rows worker w has fetched and not yet finished.
InFlight(w) == {batch[w][k].idx : k \in 1..Len(batch[w])}

\* C10: with several workers on the same table, no unprocessed row is picked
\* up by more than one worker for the same attempt (so no increment of the
\* retry count is lost).
C10_NoDoubleProcessing ==
    \A w1, w2 \in Workers : w1 # w2 => InFlight(w1) \cap InFlight(w2) = {}

-----------------------------------------------------------------------------
(* Idempotent handlers *)

\* C11: handlers are idempotent: however often the event of an outbox row is
\* delivered, at most one payment (ReservationConfirmed) or one refund
\* (ReservationCancelled) is carried out for it.
C11_OneBillingPerEvent == \A i \in Rows : billed[i] <= 1

-----------------------------------------------------------------------------
(* Pending events *)

\* The events of sequence evs all have a row in table.
AllInOutbox(evs, table) ==
    \A k \in 1..Len(evs) : \E i \in 1..Len(table) : table[i].type = evs[k].type

\* C12: the pending-event list of an aggregate is cleared only after the write
\* that persists those events has succeeded: whenever a use case removes
\* events from the list of the aggregate it works on, they are already stored.
C12_ClearedOnlyAfterPersisted ==
    [][\A c \in Clients :
          (Len(ent'[c].events) < Len(ent[c].events) /\ pc'[c] # "idle")
              => AllInOutbox(ent[c].events, outbox)]_vars

-----------------------------------------------------------------------------
(* Operations of the aggregate *)

\* A step that is a call of cancel.
CancelCall == calls' = calls + 1 /\ lastOp' = "cancel"

\* C13: cancel on a Cancelled or Completed reservation fails, appends no event
\* and leaves status, totalAmount and confirmationNumber as they were; so the
\* second of two consecutive cancel calls fails and changes nothing.
C13_CancelTerminalFails ==
    [][CancelCall /\ status \in {"Cancelled", "Completed"} =>
          /\ result'.kind # "ok"
          /\ events' = events
          /\ status' = status
          /\ totalAmount' = totalAmount
          /\ confirmationNumber' = confirmationNumber]_vars

\* The event cancel appends (ReservationCancelled; BookingCancelled in the
\* technical foundation).
IsCancelledEvent(e) == e.type \in {"ReservationCancelled", "BookingCancelled"}

\* C14: cancel on a Pending or Confirmed reservation sets the status to
\* Cancelled and appends exactly one event, the cancellation event, whose
\* payload carries the reservation's dateRange and roomBookings.
C14_CancelEmitsCancelled ==
    [][CancelCall /\ status \in {"Pending", "Confirmed"} =>
          /\ result' = Ok
          /\ status' = "Cancelled"
          /\ Len(events') = Len(events) + 1
          /\ SubSeq(events', 1, Len(events)) = events
          /\ IsCancelledEvent(events'[Len(events')])
          /\ {"dateRange", "roomBookings"} \subseteq events'[Len(events')].carries]_vars

\* A step that is a call of create.
CreateCall == calls' = calls + 1 /\ lastOp' = "create"

\* The event create appends (ReservationCreated; BookingCreated in the
\* technical foundation).
IsCreatedEvent(e) == e.type \in {"ReservationCreated", "BookingCreated"}

\* C15: for valid input create returns a reservation with status Pending, a
\* total of zero and exactly one pending event, the creation event.
C15_CreatePendingZeroOneEvent ==
    [][CreateCall /\ arg' = "valid" =>
          /\ result' = Ok
          /\ status' = "Pending"
          /\ totalAmount' = 0
          /\ Len(events') = 1
          /\ IsCreatedEvent(events'[1])]_vars

\* C19: create fails with a validation error, producing no reservation and
\* no event, when the list of room bookings is malformed (here: empty).
C19_CreateRejectsMalformed ==
    [][CreateCall /\ arg' = "empty" =>
          /\ result'.kind \in {"ValidationError", "ValidationException"}
          /\ status' = "None"
          /\ events' = <<>>]_vars

\* The event confirm appends (ReservationConfirmed; BookingConfirmed in the
\* technical foundation).
IsConfirmedEvent(e) == e.type \in {"ReservationConfirmed", "BookingConfirmed"}

\* C16: confirm on a Pending reservation with a payment reference sets the
\* status to Confirmed, sets the confirmation number and appends exactly one
\* event, the confirmation event; directly after create that makes 2 events.
C16_ConfirmPendingSucceeds ==
    [][ConfirmCall /\ status = "Pending" /\ arg' # NoRef =>
          /\ result' = Ok
          /\ status' = "Confirmed"
          /\ confirmationNumber' # 0
          /\ Len(events') = Len(events) + 1
          /\ SubSeq(events', 1, Len(events)) = events
          /\ IsConfirmedEvent(events'[Len(events')])
          /\ lastOp = "create" => Len(events') = 2]_vars

\* C17: confirm on a Pending reservation without a payment reference fails;
\* the reservation stays Pending, without confirmation number, and no event
\* is appended.
C17_ConfirmWithoutReferenceFails ==
    [][ConfirmCall /\ status = "Pending" /\ arg' = NoRef =>
          /\ result'.kind # "ok"
          /\ status' = "Pending"
          /\ confirmationNumber' = 0
          /\ events' = events]_vars

\* A step that is a call of calculateTotal.
CalculateTotalCall == calls' = calls + 1 /\ lastOp' = "calculateTotal"

\* C18: calculateTotal is callable only while the reservation is Pending: on
\* a Confirmed, Cancelled or Completed reservation it changes neither the
\* total nor the pending events.
C18_CalculateTotalOnlyPending ==
    [][CalculateTotalCall /\ status \in {"Confirmed", "Cancelled", "Completed"} =>
          /\ totalAmount' = totalAmount
          /\ events' = events]_vars

-----------------------------------------------------------------------------
(* Policy validation *)

\* validateBooking has returned.
Validated == verdict # NoVerdict

\* C20: validate evaluates every configured policy even after one has failed,
\* returns isValid = TRUE iff no policy fails, and otherwise a reason that is
\* the reasons of all failing policies, in policy order, joined by "; ".
C20_AllPoliciesAllReasons ==
    Validated =>
        /\ evaluated = Policies(impl)
        /\ verdict.isValid <=> failing = {}
        /\ ~verdict.isValid =>
               verdict.reason = Join(Reasons(FailedOf(Policies(impl), failing)), "; ")

-----------------------------------------------------------------------------
(* Read paths *)

\* The business state of an entity that the mapping to and from the row can
\* change (room type, dates, price and guest are copied field by field).
Business(e) == [status |-> e.status, quantity |-> e.quantity]

\* C21: persisting a reservation through the repository and loading it again
\* by id yields the same business state: what GetByID returns for the row
\* just written equals the entity that was written.
C21_RoundTrip ==
    \A c \in Clients :
        pc[c] = "persisted" =>
            /\ Business(modelToEntity(stored)) = Business(ent[c])
            /\ \A d \in Clients :
                   (pc[d] = "loaded" /\ loadedAt[d] = writes)
                       => Business(ent[d]) = Business(ent[c])

\* The state of a ReservationAggregate that the read paths have to agree on.
AggregateState(st, amount, cn, rb) ==
    [status |-> st, totalAmount |-> amount, confirmationNumber |-> cn, roomBookings |-> rb]

\* ReservationAggregate.fromSnapshot: an aggregate with the given fields and
\* no confirmation number.
fromSnapshot(st, amount, rb) == AggregateState(st, amount, 0, rb)

\* AggregateRoot.applyEvent: sets what the event says happened.
applyEvent(a, e) ==
    CASE e.type = "ReservationConfirmed" ->
            [a EXCEPT !.status = "Confirmed", !.confirmationNumber = e.data]
      [] e.type = "ReservationCancelled" -> [a EXCEPT !.status = "Cancelled"]
      [] e.type = "ReservationTotalCalculated" -> [a EXCEPT !.totalAmount = e.data]
      [] OTHER -> a

RECURSIVE ApplyAll(_, _)
\* events.slice(1).forEach(event => reservation.applyEvent(event))
ApplyAll(a, es) ==
    IF es = <<>> THEN a ELSE ApplyAll(applyEvent(a, Head(es)), Tail(es))

\* DrizzleReservationRepository.rehydrateFromEvents: a Pending snapshot with
\* total zero from the first event, then every later event applied in order.
rehydrateFromEvents(es) ==
    ApplyAll(fromSnapshot("Pending", 0, es[1].data), Tail(es))

\* Everything the aggregate did has been saved, and the saved history begins
\* with its creation.
HistorySaved ==
    /\ impl = "ts"
    /\ events = <<>>
    /\ eventStore # <<>>
    /\ eventStore[1].type = "ReservationCreated"

-----------------------------------------------------------------------------
(* Rate calculation *)

\* The base rate a call was made under is a positive amount.
PositiveRate(call) == getBaseRate(call.table, call.key[1]).amount.num > 0

\* C23: the rate calculator is deterministic: any two calls with the same
\* date range, room type, guest count and base-rate table return the same
\* Money total, whatever SetBaseRate calls or calculations came before.
C23_SameInputsSameTotal ==
    \A a, b \in calcLog :
        (a.key = b.key /\ a.table = b.table /\ PositiveRate(a))
            => /\ a.out.err = "" /\ b.out.err = ""
               /\ a.out.money = b.out.money

\* C24: for a stay of at least one night in a room type with a positive
\* base rate, the rate calculation succeeds with a total greater than zero.
C24_PositiveTotal ==
    \A call \in calcLog :
        PositiveRate(call)
            => /\ call.out.err = ""
               /\ call.out.money.amount # NilRat
               /\ call.out.money.amount.num > 0

-----------------------------------------------------------------------------
(* Creating a reservation *)

\* Call r of execute is over.
Finished(r) == r < request \/ (r = request /\ ucPc \in {"done", "failed"})

\* C25: when the policy validation fails or the availability check reports
\* the rooms unavailable, execute fails with the corresponding error and has
\* invoked neither holdRooms nor repository.save nor the event bus.
C25_RejectedWithoutEffects ==
    \A r \in Requests :
        /\ answers[r].policy = "invalid"
              => /\ Finished(r)
                 /\ ucError[r] = "BusinessRuleViolationException"
                 /\ portCalls[r] = NoPortCalls
        /\ answers[r].availability = "unavailable"
              => /\ Finished(r)
                 /\ ucError[r] = "RoomsNotAvailableException"
                 /\ portCalls[r] = NoPortCalls

\* One call rejected by the policy service and one by the availability port.
C25_Witness ==
    /\ answers[1].policy = "invalid"
    /\ answers[2].availability = "unavailable"
    /\ ucPc = "failed"

\* The types of the events in a list.
Types(es) == [i \in 1..Len(es) |-> es[i].type]

\* C26: when execute succeeds, repository.save has been called exactly once
\* and the event bus has been given, exactly once, the events the aggregate
\* produced: ReservationCreated and ReservationTotalCalculated.
C26_SavedOncePublishedOnce ==
    \A r \in Requests :
        (Finished(r) /\ ucError[r] = NoError /\ (r = request => ucPc = "done"))
            => /\ portCalls[r].save = 1
               /\ portCalls[r].publishEvents = 1
               /\ Len(published[r]) = 1
               /\ Types(published[r][1])
                     = <<"ReservationCreated", "ReservationTotalCalculated">>

-----------------------------------------------------------------------------
(* Value objects *)

\* C27: no Money with a negative amount can be obtained: every Money that the
\* constructor or add, subtract or multiply (by any factor) has returned has
\* an amount of zero or more.
C27_NoNegativeMoney ==
    \A i \in Slots : held[i] # NoMoney => held[i].amount.num >= 0

CurrencyMismatch ==
    {"Cannot operate on different currencies", "cannot add different currencies",
     "cannot subtract different currencies"}

\* C28: add and subtract of two Money of different currencies fail with the
\* currency mismatch error and return no value; with equal currencies a
\* result has the currency of the operands.
C28_CurrencyChecked ==
    moneyCall.op \in {"add", "subtract"} =>
        IF moneyCall.a.currency # moneyCall.b.currency
        THEN /\ moneyCall.out.err \in CurrencyMismatch
             /\ moneyCall.out.money = ZeroMoney
        ELSE moneyCall.out.err = "" => moneyCall.out.money.currency = moneyCall.a.currency

\* An addition of euros to dollars.
C28_Witness ==
    /\ moneyCall.op = "add"
    /\ moneyCall.a.currency = "USD"
    /\ moneyCall.b.currency = "EUR"

\* C29: every DateRange has checkIn strictly before checkOut, and the
\* construction fails with a validation error when checkIn is not before
\* checkOut or when checkIn is before the time of the call.
C29_DateRangeValidated ==
    rangeCall # NoRangeCall =>
        /\ rangeCall.out.err = "" => rangeCall.out.checkIn < rangeCall.out.checkOut
        /\ (rangeCall.checkIn >= rangeCall.checkOut \/ rangeCall.checkIn < rangeCall.now)
              => rangeCall.out.err # ""

\* A step that is a call of isWithinCancellationPeriod.
CancellationPeriodCall == calls' = calls + 1 /\ lastOp' = "isWithinCancellationPeriod"

\* C30: isWithinCancellationPeriod returns true exactly when check-in is at
\* least 24 hours away (true at 24 hours, false below), and the call changes
\* neither the status nor the pending events.
C30_CancellationPeriod ==
    [][CancellationPeriodCall =>
          /\ result' = Returned(arg' >= 24)
          /\ status' = status
          /\ events' = events]_vars

-----------------------------------------------------------------------------
(* The scenario create, calculateTotal, confirm *)

\* All events the aggregate has emitted: the saved ones, then the pending ones.
Cumulative == eventStore \o events

\* C31: in the scenario create -> calculateTotal -> confirm("pay_1") on a
\* 3-night, one-room reservation, the reservation ends with status Confirmed,
\* confirmationNumber set and exactly 2 cumulative events.
C31_ScenarioConfirm ==
    [][  /\ impl = "ts"
         /\ calls = 2
         /\ lastOp \in {"calculateTotal", "save"}
         /\ Cumulative # <<>>
         /\ Head(Cumulative) = EventWith("ts", "ReservationCreated", "valid")
         /\ totalAmount > 0
         /\ ConfirmCall
         /\ arg' = "pay_1"
         => /\ status' = "Confirmed"
            /\ confirmationNumber' # 0
            /\ Len(eventStore' \o events') = 2]_vars

-----------------------------------------------------------------------------
(* Poisoned rows *)

\* C32: an outbox row whose delivery has failed the maximum number of times
\* (3) is never silently dropped: it is never deleted and never marked
\* processed, its retryCount never exceeds the ceiling, and it is no longer
\* selected for delivery by later dispatcher passes.
C32_PoisonedRowStays ==
    [][\A i \in Rows :
          Poisoned(i) =>
              /\ Len(outbox') >= i
              /\ outbox'[i] = outbox[i]
              /\ outbox[i].retries = MaxRetries
              /\ \A k \in 1..Len(batch'[1]) : batch'[1][k].idx # i]_vars

\* C32 witness: a row is poisoned and a pass that began after that is under
\* way: a younger row, the one delivered last, has been fetched again.
C32_Witness ==
    \E i \in Rows :
        /\ Poisoned(i)
        /\ outcome[1].row > i
        /\ outcome[1].row \in InFlight(1)

-----------------------------------------------------------------------------
(* The rate of a stay *)

RECURSIVE DailySum(_, _, _, _)
\* The sum of one daily amount per day of [d, checkOut).
DailySum(d, checkOut, baseRate, guestCount) ==
    IF d >= checkOut THEN Rat(0, 1)
    ELSE RatAdd(calculateDailyRate(baseRate, d, guestCount).amount,
                DailySum(d + 1, checkOut, baseRate, guestCount))

\* Tax applied to the sum of the daily amounts of the stay of a call.
TaxedSumOfDays(call) ==
    LET baseRate == getBaseRate(call.table, call.key[1]) IN
    applyTaxes(GoMoney(DailySum(call.key[2][1], call.key[2][2], baseRate, call.key[3]),
                       baseRate.currency))

\* C33: calculate returns tax applied to the sum of one daily amount per
\* calendar day in [checkIn, checkOut) (check-out day excluded), each daily
\* amount being the room type's base rate times the seasonal multiplier of
\* that day's month, times the day-of-week multiplier, times the extra-guest
\* surcharge when occupancy exceeds 2.
C33_TotalIsTaxedSumOfDays ==
    \A call \in calcLog :
        PositiveRate(call) => call.out = MoneyOk(TaxedSumOfDays(call))

-----------------------------------------------------------------------------
(* Rates of several room types *)

\* C34: calculating rates for several room types concurrently
\* (CalculateRatesForMultipleRooms) terminates and returns, for every room
\* type, the same total as a sequential CalculateRate call for that room type,
\* under every interleaving of the per-room-type computations: no goroutine
\* ends the process, and the map returned holds for each room type the
\* total CalculateRate gives for it.
C34_ConcurrentAsSequential ==
    /\ multi.pc # "panicked"
    /\ multi.pc = "returned" =>
          \A rt \in multi.roomTypes :
              LET seq == Calculated(baseRates, rt, multi.range, multi.guestCount) IN
              /\ seq.err = ""
              /\ [roomTypeID |-> rt, rate |-> seq.money] \in multi.results

-----------------------------------------------------------------------------
(* The advance-booking window *)

\* Check-in lies between 1 and 365 days from now, inclusive.
InWindow(hours) == 24 * 1 <= hours /\ hours <= 24 * 365

\* ValidateBooking has rejected the booking with an advance-booking policy.
AdvanceRejected ==
    verdict \in {GoPolicyViolation("MinimumAdvanceBooking"),
                 GoPolicyViolation("MaximumAdvanceBooking")}

\* ValidateBooking has run both advance-booking policies and gone on.
AdvancePassed == Len(evaluated) >= 2 /\ ~AdvanceRejected

\* C35: the advance-booking policy passes iff check-in lies between 1 and
\* 365 days from now inclusive: a booking whose check-in is less than 1 day
\* away (or in the past) is rejected, and one whose check-in is more than
\* 365 days away is rejected.
C35_AdvanceBookingWindow ==
    impl = "go" =>
        /\ AdvancePassed => InWindow(hoursUntilCheckIn)
        /\ AdvanceRejected => ~InWindow(hoursUntilCheckIn)

-----------------------------------------------------------------------------
(* Publishing with retries *)

\* The Publish calls of the PublishWithRetry call that returned an error.
FailedAttempts == {k \in 1..Len(retry.published) : retry.published[k] # {}}

\* C36: PublishWithRetry(event, maxRetries) makes at most maxRetries+1 publish
\* attempts, stops at the first attempt that succeeds and returns success,
\* and returns an error (never success) when all maxRetries+1 attempts fail;
\* it always terminates.
C36_BoundedRetry ==
    /\ [](/\ Len(retry.published) <= retry.maxRetries + 1
          /\ \A k \in 1..Len(retry.published) - 1 : k \in FailedAttempts
          /\ (Len(retry.published) \notin FailedAttempts /\ retry.published # <<>>)
                => (retry.pc = "returned" /\ retry.returned = "nil")
          /\ retry.pc = "returned" =>
                (retry.returned # "nil"
                    <=> Cardinality(FailedAttempts) = retry.maxRetries + 1))
    /\ (retry.pc = "loop" ~> retry.pc = "returned")

\* C36 witness: with the largest maxRetries every one of the attempts failed and
\* the call returned the error.
C36_Witness ==
    /\ retry.pc = "returned"
    /\ retry.maxRetries = MaxRetriesArg
    /\ Cardinality(FailedAttempts) = MaxRetriesArg + 1
    /\ retry.returned = "failed to publish event"

-----------------------------------------------------------------------------
(* Completed, the confirmation number, the order of the events *)

\* C37: no sequence of the aggregate's operations (create, calculateTotal,
\* confirm, cancel, and in the Go variant UpdateGuestInfo and ApplyDiscount)
\* ever puts a Reservation in status Completed: a reservation is Completed
\* only when it was read back from storage in that status.
C37_NoOperationCompletes ==
    [][(status' = "Completed" /\ status # "Completed") => lastOp' = "load"]_vars

\* C37 witness: a Go reservation was created and confirmed, and
\* UpdateGuestInfo was then refused; it is Confirmed.
C37_Witness ==
    /\ impl = "go"
    /\ status = "Confirmed"
    /\ lastOp = "updateGuestInfo"
    /\ calls = 3
    /\ Len(events) = 2

Positions(type) == {k \in 1..Len(Cumulative) : Cumulative[k].type = type}

\* C39: for every Reservation, the sequence of all events it has ever
\* emitted starts with ReservationCreated, contains ReservationCreated exactly
\* once, contains at most one ReservationConfirmed and at most one
\* ReservationCancelled, and no ReservationConfirmed occurs after a
\* ReservationCancelled. (Checked for the reservations made by create, whose
\* events are all in the model: create leaves ReservationCreated as the only
\* event, and a reservation that has it keeps the order.)
C39_EventOrder ==
    [][impl = "ts" =>
          /\ CreateCall => Types(Cumulative)' = <<"ReservationCreated">>
          /\ (Positions("ReservationCreated") # {})' =>
                /\ Positions("ReservationCreated")' = {1}
                /\ Cardinality(Positions("ReservationConfirmed"))' <= 1
                /\ Cardinality(Positions("ReservationCancelled"))' <= 1
                /\ \A i \in Positions("ReservationConfirmed")',
                      j \in Positions("ReservationCancelled")' : i < j]_vars

\* C39 witness: create, confirm, save, cancel: the events of the three
\* calls, two of them saved, in that order.
C39_Witness ==
    /\ impl = "ts"
    /\ Types(Cumulative) = <<"ReservationCreated", "ReservationConfirmed", "ReservationCancelled">>
    /\ Len(eventStore) = 2

-----------------------------------------------------------------------------
(* Handlers on a retried delivery *)

\* C40: when delivery of an outbox row is retried after a partial failure,
\* every handler subscribed to the event type is invoked again on the retry,
\* including the handlers that already succeeded on an earlier attempt; a
\* handler is therefore invoked once per delivery attempt of the row (per
\* EventBus.Publish of its event), up to the retry ceiling.
C40_AllHandlersOnEveryAttempt ==
    \A i \in Rows :
        Exists(i) =>
            /\ deliveries[i].publishes <= MaxRetries
            /\ \A h \in Handlers :
                  deliveries[i].invoked[h] =
                      IF h \in Subscribers(outbox[i].type) THEN deliveries[i].publishes ELSE 0

\* C40 witness: a ReservationConfirmed row was delivered twice, the payment
\* handler succeeded both times (so the first attempt failed in the
\* notification handler alone) and was invoked twice.
C40_Witness ==
    \E i \in Rows :
        /\ Exists(i)
        /\ outbox[i].type = "ReservationConfirmed"
        /\ outbox[i].processed
        /\ outbox[i].retries = 1
        /\ billed[i] = 2
        /\ deliveries[i].invoked["billing"] = 2

====
